---- MODULE Spec2Model ----
(***************************************************************************)
(* A model of the multi-tool agent orchestrator: the router               *)
(* (Orchestrator.analyze_task), the primary/secondary chain                *)
(* (Orchestrator.execute_task), the conversation loop                      *)
(* (BaseSession._process_messages) and the four tool-call dispatchers     *)
(* (editor, bash, mermaid, database) with the database session's          *)
(* diagnose-and-recover pipeline.                                          *)
(*                                                                         *)
(* Python values are modelled as follows: a dict is a record, a list is a  *)
(* sequence, None is the record None, str is a string.  A text block whose *)
(* text is a prefix followed by json.dumps(v) is the record                *)
(* [type |-> "text", prefix |-> p, json |-> v]: a text that is not the     *)
(* value it encodes.                                                       *)
(*                                                                         *)
(* A local that holds the value of a call, used several times afterwards,  *)
(* is bound once as CHOOSE r \in {f(v) : v \in {call}} : TRUE.             *)
(***************************************************************************)
EXTENDS Integers, Sequences, FiniteSets, TLC

VARIABLES
    pc,             \* where process_request / execute_task stands
    router_response,\* analyze_task's local `response`, None when its model call raised
    analysis,       \* the dict analyze_task returned
    result,         \* execute_task's local `result`
    idx,            \* position of the for loop over zip(secondary_tools, secondary_inputs)
    cur,            \* the tool session whose _process_messages is running, or "none"
    active,         \* the set of tool sessions inside _process_messages
    messages,       \* self.messages of each tool session
    final_result,   \* _process_messages' local `final_result`
    response,       \* _process_messages' local `response` (the last model reply)
    tool_results,   \* _process_messages' local `tool_results` (the last dispatch)
    iter,           \* iterations of `while True` completed by the running loop
    dispatches,     \* process_tool_calls calls made by the running loop
    db_faults,      \* the faults in force on the database connection when the last dispatch began
    calls,          \* model round trips made by tool sessions so far
    steps,          \* log: one entry per _process_messages call of the chain
    files,          \* the editor directory: path -> content, or None
    db,             \* the database session: enabled flag, live catalog, condition of its connection
    token_usage,    \* total_input_tokens and total_output_tokens of each SessionLogger
    usage_reported, \* the token counts the API reported, summed over the round trips that returned
    args            \* the options main() parsed from the command line

vars == <<pc, router_response, analysis, result, idx, cur, active, messages, final_result,
          response, tool_results, iter, dispatches, db_faults, calls, steps,
          files, db, token_usage, usage_reported, args>>

\* Model round trips the tool sessions may make in one request.
MaxCalls == 3

None == [py |-> "None"]

-----------------------------------------------------------------------------
(* Python string primitives.                                               *)

UpperAlpha == "ABCDEFGHIJKLMNOPQRSTUVWXYZ"
LowerAlpha == "abcdefghijklmnopqrstuvwxyz"

\* The first position at or after i where character c stands in s, or 0
IndexOf(c, s, i) ==
    LET hits == {k \in i..Len(s) : SubSeq(s, k, k) = c}
    IN  IF hits = {} THEN 0 ELSE CHOOSE k \in hits : \A j \in hits : k <= j

LowerChar(c) ==
    LET k == IndexOf(c, UpperAlpha, 1)
    IN  IF k = 0 THEN c ELSE SubSeq(LowerAlpha, k, k)

\* The text as it is written, capitals kept
AsWritten(s) == s

\* str.lower(): every character lowered, the text taken by halves
RECURSIVE lower(_)
lower(s) ==
    IF Len(s) = 0 THEN ""
    ELSE IF Len(s) = 1 THEN LowerChar(s)
    ELSE LET h == Len(s) \div 2
         IN  lower(SubSeq(s, 1, h)) \o lower(SubSeq(s, h + 1, Len(s)))

\* `sub in s`
Contains(s, sub) ==
    \E i \in 1..(Len(s) - Len(sub) + 1) : SubSeq(s, i, i + Len(sub) - 1) = sub

\* d.get(k): the key is present
Has(d, k) == k \in DOMAIN d

\* bool(d.get(k)) for a string-valued key
Truthy(d, k) == Has(d, k) /\ d[k] # ""

TextBlock(t) == [type |-> "text", text |-> t]

\* {"type": "text", "text": prefix + json.dumps(v)}
JsonTextBlock(prefix, v) == [type |-> "text", prefix |-> prefix, json |-> v]

\* The dict {}: no key a handler asks for is present
EmptyDict == [py |-> "dict"]

ToolUse(id, name, input) ==
    [type |-> "tool_use", id |-> id, name |-> name, input |-> input]

-----------------------------------------------------------------------------
(* The tool sessions.                                                      *)

Sessions == {"editor", "bash", "mermaid", "database"}

\* The tool name each dispatcher answers to.
ToolName(s) ==
    CASE s = "editor"   -> "str_replace_editor"
      [] s = "bash"     -> "bash"
      [] s = "mermaid"  -> "mermaid"
      [] s = "database" -> "database"

\* Orchestrator.__init__ builds BashSession(session_id, config): no_agi keeps
\* its default.
no_agi == FALSE

-----------------------------------------------------------------------------
(* BashSession.                                                            *)

\* str.strip() for the whitespace the model's outputs carry
RECURSIVE strip(_)
strip(s) ==
    IF Len(s) = 0 THEN s
    ELSE IF SubSeq(s, 1, 1) \in {" ", "\n"} THEN strip(SubSeq(s, 2, Len(s)))
    ELSE IF SubSeq(s, Len(s), Len(s)) \in {" ", "\n"}
         THEN strip(SubSeq(s, 1, Len(s) - 1))
    ELSE s

\* subprocess.run(command, shell=True, executable="/bin/bash"): what the shell
\* does with each command the model's requests carry.
SubprocessRun(command) ==
    CASE command = "ls"         -> [returncode |-> 0, stdout |-> "a.txt\n", stderr |-> ""]
      [] command = "true"       -> [returncode |-> 0, stdout |-> "", stderr |-> ""]
      [] command = "cat nofile" -> [returncode |-> 1, stdout |-> "",
                                    stderr |-> "cat: nofile: No such file or directory\n"]
      [] command = "false"      -> [returncode |-> 1, stdout |-> "", stderr |-> ""]
      [] OTHER                  -> [raises |-> "embedded null byte"]

\* The subprocess is started for this input.
BashRuns(tool_call) ==
    /\ ~(Has(tool_call, "restart") /\ tool_call.restart)
    /\ Truthy(tool_call, "command")
    /\ ~no_agi

HandleBashCommand(tool_call) ==
    IF Has(tool_call, "restart") /\ tool_call.restart
    THEN [content |-> "Bash session restarted."]
    ELSE IF ~Truthy(tool_call, "command")
    THEN [error |-> "No command provided to execute."]
    ELSE IF no_agi
    THEN [content |-> "in mock mode, command did not run"]
    ELSE LET r == SubprocessRun(tool_call.command)
         IN  IF Has(r, "raises") THEN [error |-> r.raises]
             ELSE IF r.returncode # 0
             THEN [error |-> IF strip(r.stderr) # "" THEN strip(r.stderr)
                             ELSE "Command execution failed."]
             ELSE [content |-> strip(r.stdout)]

-----------------------------------------------------------------------------
(* MermaidSession.                                                         *)

\* _generate_mermaid_diagram: an image, or None (bad syntax, network error);
\* it catches every exception.
GenerateMermaidDiagram(diagram) == diagram = "graph TD; A-->B"

\* os.makedirs of the output directory may fail
MakedirsFails(output_file) == output_file = "/proc/x/d.png"

HandleMermaidTool(tool_call) ==
    IF ~Truthy(tool_call, "diagram")
    THEN [error |-> "No diagram content provided"]
    ELSE LET output_file == IF Has(tool_call, "output_file")
                            THEN tool_call.output_file ELSE "diagram.png"
         IN  IF MakedirsFails(output_file)
             THEN [error |-> "[Errno 13] Permission denied"]
             ELSE IF GenerateMermaidDiagram(tool_call.diagram)
             THEN [content |-> "Diagram generated successfully at output/diagrams/"
                                  \o output_file]
             ELSE [error |-> "Failed to generate diagram. Please check the diagram syntax and try again."]

-----------------------------------------------------------------------------
(* EditorSession.  `files` maps each path of the editor directory to a     *)
(* record: [exists |-> FALSE], or [exists |-> TRUE, content |-> text].     *)

\* str.replace(old, new, count) with old non-empty
RECURSIVE ReplaceN(_, _, _, _)
ReplaceN(s, old, new, count) ==
    IF count = 0 \/ Len(s) < Len(old) THEN s
    ELSE IF SubSeq(s, 1, Len(old)) = old
    THEN new \o ReplaceN(SubSeq(s, Len(old) + 1, Len(s)), old, new, count - 1)
    ELSE SubSeq(s, 1, 1) \o ReplaceN(SubSeq(s, 2, Len(s)), old, new, count)

\* str.replace(old, new) with old empty: new before every character and at the end
RECURSIVE Interleave(_, _)
Interleave(s, new) ==
    IF Len(s) = 0 THEN new
    ELSE new \o SubSeq(s, 1, 1) \o Interleave(SubSeq(s, 2, Len(s)), new)

\* str.replace(old, new): every occurrence, left to right
replace(s, old, new) ==
    IF old = "" THEN Interleave(s, new) ELSE ReplaceN(s, old, new, -1)

\* f.readlines(): the lines, each with its line end
RECURSIVE readlines(_)
readlines(s) ==
    IF Len(s) = 0 THEN <<>>
    ELSE LET k == IndexOf("\n", s, 1)
         IN  IF k = 0 THEN <<s>>
             ELSE <<SubSeq(s, 1, k)>> \o readlines(SubSeq(s, k + 1, Len(s)))

\* f.writelines(lines)
RECURSIVE writelines(_)
writelines(lines) ==
    IF lines = <<>> THEN "" ELSE Head(lines) \o writelines(Tail(lines))

\* list.insert(i, x)
ListInsert(lines, i, x) ==
    LET n == Len(lines)
        j == IF i < 0 THEN (IF i + n < 0 THEN 0 ELSE i + n)
             ELSE IF i > n THEN n ELSE i
    IN  SubSeq(lines, 1, j) \o <<x>> \o SubSeq(lines, j + 1, n)

\* The paths of the editor directory the model follows.
Paths == {"a.txt", "b.txt"}

\* _get_editor_path: the API path without its first "/repo/", under editor_dir
GetEditorPath(path) == ReplaceN(path, "/repo/", "", 1)

Missing == [exists |-> FALSE]
File(content) == [exists |-> TRUE, content |-> content]

\* open(path, "r") fails
NoSuchFile(path) == "[Errno 2] No such file or directory: '" \o path \o "'"

\* Each handler yields [res |-> the dict it returns, files |-> the directory after it].
HandleView(fs, path, tool_call) ==
    IF path \in Paths /\ fs[path].exists
    THEN [res |-> [content |-> fs[path].content], files |-> fs]
    ELSE [res |-> [error |-> "File " \o path \o " does not exist"], files |-> fs]

HandleCreate(fs, path, tool_call) ==
    IF path \notin Paths
    THEN [res |-> [error |-> "[Errno 13] Permission denied: '" \o path \o "'"], files |-> fs]
    ELSE IF ~Has(tool_call, "file_text")
    \* open(path, "w") has truncated the file when tool_call["file_text"] raises
    THEN [res |-> [error |-> "'file_text'"], files |-> [fs EXCEPT ![path] = File("")]]
    ELSE [res |-> [content |-> "File created at " \o path],
          files |-> [fs EXCEPT ![path] = File(tool_call.file_text)]]

\* A str_replace that writes the file back whether or not old_str occurs
HandleStrReplaceAlways(fs, path, tool_call) ==
    IF ~(path \in Paths /\ fs[path].exists)
    THEN [res |-> [error |-> NoSuchFile(path)], files |-> fs]
    ELSE [res |-> [content |-> "File updated successfully"],
          files |-> [fs EXCEPT ![path] =
              File(replace(fs[path].content, tool_call.old_str, tool_call.new_str))]]

HandleStrReplace(fs, path, tool_call) ==
    IF ~(path \in Paths /\ fs[path].exists)
    THEN [res |-> [error |-> NoSuchFile(path)], files |-> fs]
    ELSE IF ~Has(tool_call, "old_str")
    THEN [res |-> [error |-> "'old_str'"], files |-> fs]
    ELSE IF ~Contains(fs[path].content, tool_call.old_str)
    THEN [res |-> [error |-> "old_str not found in file"], files |-> fs]
    ELSE LET new_str == IF Has(tool_call, "new_str") THEN tool_call.new_str ELSE ""
             new_content == replace(fs[path].content, tool_call.old_str, new_str)
         IN  [res |-> [content |-> "File updated successfully"],
              files |-> [fs EXCEPT ![path] = File(new_content)]]

\* An insert that puts a line past the end at the end of the file
HandleInsertAtEnd(fs, path, tool_call) ==
    IF ~(path \in Paths /\ fs[path].exists)
    THEN [res |-> [error |-> NoSuchFile(path)], files |-> fs]
    ELSE [res |-> [content |-> "Content inserted successfully"],
          files |-> [fs EXCEPT ![path] = File(writelines(
              ListInsert(readlines(fs[path].content), tool_call.insert_line,
                         tool_call.new_str \o "\n")))]]

HandleInsert(fs, path, tool_call) ==
    IF ~(path \in Paths /\ fs[path].exists)
    THEN [res |-> [error |-> NoSuchFile(path)], files |-> fs]
    ELSE IF ~Has(tool_call, "insert_line")
    THEN [res |-> [error |-> "'insert_line'"], files |-> fs]
    ELSE LET lines == readlines(fs[path].content)
         IN  IF tool_call.insert_line > Len(lines)
             THEN [res |-> [error |-> "insert_line beyond file length"], files |-> fs]
             ELSE IF ~Has(tool_call, "new_str")
             THEN [res |-> [error |-> "'new_str'"], files |-> fs]
             ELSE [res |-> [content |-> "Content inserted successfully"],
                   files |-> [fs EXCEPT ![path] = File(writelines(
                       ListInsert(lines, tool_call.insert_line,
                                  tool_call.new_str \o "\n")))]]

HandleTextEditorTool(fs, tool_call) ==
    IF ~Has(tool_call, "command")
    THEN [res |-> [error |-> "'command'"], files |-> fs]
    ELSE IF ~Has(tool_call, "path")
    THEN [res |-> [error |-> "Missing required fields"], files |-> fs]
    ELSE LET path == GetEditorPath(tool_call.path)
             command == tool_call.command
         IN  CASE command = "view"        -> HandleView(fs, path, tool_call)
               [] command = "create"      -> HandleCreate(fs, path, tool_call)
               [] command = "str_replace" -> HandleStrReplace(fs, path, tool_call)
               [] command = "insert"      -> HandleInsert(fs, path, tool_call)
               [] OTHER -> [res |-> [error |-> "Unknown command " \o command],
                            files |-> fs]

-----------------------------------------------------------------------------
(* The database engine (PostgresEngine over one connection) and the live   *)
(* database.  A cell of a row is [t |-> its Python type, v |-> its text].  *)
(* `cat` is the live table list; `faults` is the set of statements that    *)
(* fail on the connection while one invocation is handled.                 *)

Cell(t, v) == [t |-> t, v |-> v]

Range(seq) == {seq[i] : i \in DOMAIN seq}

\* information_schema.columns of each table
Columns(table) ==
    CASE table = "users" ->
            << [column_name |-> "id", data_type |-> "integer"],
               [column_name |-> "name", data_type |-> "text"],
               [column_name |-> "created_at", data_type |-> "timestamp"] >>
      [] table = "user_roles" ->
            << [column_name |-> "user_id", data_type |-> "integer"],
               [column_name |-> "role", data_type |-> "text"] >>
      [] table = "orders" ->
            << [column_name |-> "id", data_type |-> "integer"] >>
      [] table = "recovery_info" ->
            << [column_name |-> "note", data_type |-> "text"] >>
      [] OTHER -> << >>

\* The first row of each table, or None for an empty table
FirstRow(table) ==
    CASE table = "users" ->
            [id |-> Cell("int", "1"), name |-> Cell("str", "alice"),
             created_at |-> Cell("datetime", "2024-11-01T10:00:00")]
      [] table = "user_roles" ->
            [user_id |-> Cell("int", "1"), role |-> Cell("str", "admin")]
      [] table = "recovery_info" ->
            [note |-> Cell("str", "n")]
      [] OTHER -> None

\* What the model's SQL texts ask for: the table read, and what the server
\* answers when that table exists.
QueryPlan(sql) ==
    CASE sql = "SELECT name FROM users" ->
            [table |-> "users", error |-> "",
             rows |-> << [name |-> Cell("str", "alice")] >>]
      [] sql = "SELECT * FROM usres" ->
            [table |-> "usres", error |-> "", rows |-> << >>]
      [] sql = "SELECT * FROM invoices" ->
            [table |-> "invoices", error |-> "", rows |-> << >>]
      [] sql = "SELECT nme FROM users" ->
            [table |-> "users", error |-> "column \"nme\" does not exist",
             rows |-> << >>]
      [] sql = "SELECT relation_id FROM users" ->
            [table |-> "users", error |-> "column \"relation_id\" does not exist",
             rows |-> << >>]
      [] sql = "UPDATE users SET name = 'x'" ->
            [table |-> "users", error |-> "permission denied for table users",
             rows |-> << >>]
      [] sql = "SELECT avatar FROM users" ->
            [table |-> "users", error |-> "",
             rows |-> << [avatar |-> Cell("bytes", "00")] >>]
      [] sql = "SELECT created_at FROM users" ->
            [table |-> "users", error |-> "",
             rows |-> << [created_at |-> Cell("datetime", "2024-11-01T10:00:00")] >>]
      [] OTHER ->
            [table |-> "users", error |-> "syntax error at or near \"SELEC\"",
             rows |-> << >>]

ConnectionLost == "server closed the connection unexpectedly"

\* What a statement that failed leaves the connection in.  psycopg2.connect
\* opens the connection without autocommit and fetch_all and fetch_one
\* neither commit nor roll back: a statement the server rejects leaves the
\* transaction failed, a lost connection leaves it closed, and both are
\* members of `faults` from then on.
InFailedTransaction == "aborted"
ConnectionClosed == "closed"

\* What cursor.execute raises whatever the statement, "" when it runs it
Refused(faults) ==
    IF ConnectionClosed \in faults THEN "connection already closed"
    ELSE IF InFailedTransaction \in faults
    THEN "current transaction is aborted, commands ignored until end of transaction block"
    ELSE ""

Ok(type, value) == [ok |-> TRUE, type |-> type, value |-> value]
Raise(text) == [ok |-> FALSE, error |-> text]

\* A session that opens a new connection for the next pass
ConnectionReopened(faults) == {}

\* The condition of self.engine's connection after a pass that ended with
\* `faults` in force: the session keeps the engine it connected when it was
\* built, so the condition stays
ConnectionAfter(faults) == faults \cap {InFailedTransaction, ConnectionClosed}

\* What fetch_all and fetch_one raise for a statement that failed on the
\* connection, `leaves` being what the failure adds to `faults`
Fail(text, leaves) == [ok |-> FALSE, error |-> text, leaves |-> leaves]

\* The faults in force once r has been returned or raised
Leaves(r, faults) == IF Has(r, "leaves") THEN faults \cup r.leaves ELSE faults

\* A statement sent with fetch_all: what the connection makes of it
FetchAll(name, faults, answer) ==
    IF Refused(faults) # "" THEN Fail("Failed to fetch results: " \o Refused(faults), {})
    ELSE IF name \in faults
    THEN Fail("Failed to fetch results: " \o ConnectionLost, {ConnectionClosed})
    ELSE answer

\* PostgresEngine.fetch_all(query) for the model's own SQL text
FetchAllQuery(tool_call, cat, faults) ==
    IF ~Has(tool_call, "query")
    THEN Raise("Failed to fetch results: can't execute an empty query")
    ELSE FetchAll("query", faults,
             LET sql == tool_call.query
                 plan == QueryPlan(sql)
             IN  IF plan.table \notin Range(cat)
                 THEN Fail("Failed to fetch results: relation \"" \o plan.table
                           \o "\" does not exist\nLINE 1: " \o sql,
                           {InFailedTransaction})
                 ELSE IF plan.error # ""
                 THEN Fail("Failed to fetch results: " \o plan.error
                           \o "\nLINE 1: " \o sql, {InFailedTransaction})
                 ELSE Ok("rows", plan.rows))

\* A table list remembered from an earlier catalog, whatever the live one holds
GetTablesStale(cat, faults) ==
    FetchAll("tables", faults, Ok("list", <<"users", "user_roles", "orders">>))

\* DBSession.get_tables
GetTables(cat, faults) == FetchAll("tables", faults, Ok("list", cat))

\* DBSession.get_table_schema; a name that is no table has no columns
GetTableSchema(table, cat, faults) ==
    FetchAll("schema:" \o table, faults,
             Ok("list", IF table \in Range(cat) THEN Columns(table) ELSE << >>))

\* DBSession.get_table_constraints
GetTableConstraints(table, cat, faults) ==
    FetchAll("constraints:" \o table, faults, Ok("list", << >>))

\* DBSession.get_table_indexes
GetTableIndexes(table, cat, faults) ==
    FetchAll("indexes:" \o table, faults, Ok("list", << >>))

\* self.engine.fetch_one(f"SELECT * FROM {table} LIMIT 1")
FetchOneSample(table, cat, faults) ==
    IF Refused(faults) # "" THEN Fail("Failed to fetch result: " \o Refused(faults), {})
    ELSE IF ("sample:" \o table) \in faults
    THEN Fail("Failed to fetch result: " \o ConnectionLost, {ConnectionClosed})
    ELSE IF table \notin Range(cat)
    THEN Fail("Failed to fetch result: relation \"" \o table
              \o "\" does not exist\nLINE 1: SELECT * FROM " \o table \o " LIMIT 1",
              {InFailedTransaction})
    ELSE Ok("row", FirstRow(table))

\* The dict of inspect_table, or the first failure of its three reads
InspectTable(table, cat, faults) ==
    LET sc == GetTableSchema(table, cat, faults)
        co == GetTableConstraints(table, cat, faults)
        ix == GetTableIndexes(table, cat, faults)
    IN  IF ~sc.ok THEN sc
        ELSE IF ~co.ok THEN co
        ELSE IF ~ix.ok THEN ix
        ELSE Ok("dict", [schema |-> sc.value, constraints |-> co.value,
                         indexes |-> ix.value])

\* DBSession._execute_operation.  tool_call.get("table_name") of an input
\* without one is None: the catalog has no such table.
ExecuteOperation(operation, tool_call, cat, faults) ==
    CASE operation = "query" -> FetchAllQuery(tool_call, cat, faults)
      [] operation = "list_tables" -> GetTables(cat, faults)
      [] operation = "inspect_table" ->
            InspectTable(IF Has(tool_call, "table_name")
                         THEN tool_call.table_name ELSE "None", cat, faults)
      [] operation = "get_schema" ->
            LET tables == GetTables(cat, faults)
            IN  IF ~tables.ok THEN tables
                ELSE LET failing == {i \in DOMAIN tables.value :
                             ~InspectTable(tables.value[i], cat, faults).ok}
                     IN  IF failing # {}
                         THEN InspectTable(
                                 tables.value[CHOOSE i \in failing :
                                     \A j \in failing : i <= j], cat, faults)
                         ELSE Ok("dict", [t \in Range(tables.value) |->
                                     InspectTable(t, cat, faults).value])
      [] OTHER -> Raise("Unknown operation: " \o operation)

-----------------------------------------------------------------------------
(* difflib.get_close_matches and re.search, as _diagnose_error uses them.  *)

Max(S) == CHOOSE x \in S : \A y \in S : y <= x
Min(S) == CHOOSE x \in S : \A y \in S : x <= y

\* Length of the longest common prefix of a[i..ahi] and b[j..bhi]
RECURSIVE CommonPrefix(_, _, _, _, _, _)
CommonPrefix(a, b, i, j, ahi, bhi) ==
    IF i > ahi \/ j > bhi \/ SubSeq(a, i, i) # SubSeq(b, j, j) THEN 0
    ELSE 1 + CommonPrefix(a, b, i + 1, j + 1, ahi, bhi)

\* SequenceMatcher.find_longest_match on a[alo..ahi], b[blo..bhi]: the longest
\* block, the earliest in a, then the earliest in b; <<i, j, k>>
FindLongestMatch(a, b, alo, ahi, blo, bhi) ==
    LET len(i, j) == CommonPrefix(a, b, i, j, ahi, bhi)
        pairs == (alo..ahi) \X (blo..bhi)
        k == IF pairs = {} THEN 0 ELSE Max({len(p[1], p[2]) : p \in pairs})
    IN  IF k = 0 THEN <<alo, blo, 0>>
        ELSE LET i == Min({p[1] : p \in {q \in pairs : len(q[1], q[2]) = k}})
                 j == Min({p[2] : p \in {q \in pairs : q[1] = i /\ len(q[1], q[2]) = k}})
             IN  <<i, j, k>>

\* The total size of SequenceMatcher.get_matching_blocks
RECURSIVE MatchingSize(_, _, _, _, _, _)
MatchingSize(a, b, alo, ahi, blo, bhi) ==
    IF alo > ahi \/ blo > bhi THEN 0
    ELSE CHOOSE size \in
             {IF m[3] = 0 THEN 0
              ELSE m[3]
                   + MatchingSize(a, b, alo, m[1] - 1, blo, m[2] - 1)
                   + MatchingSize(a, b, m[1] + m[3], ahi, m[2] + m[3], bhi) :
              m \in {FindLongestMatch(a, b, alo, ahi, blo, bhi)}} : TRUE

\* SequenceMatcher(a, b).ratio() = 2.0 * M / T, as the pair <<2 * M, T>>
\* (<<1, 1>> when both are empty)
Ratio(a, b) ==
    IF Len(a) + Len(b) = 0 THEN <<1, 1>>
    ELSE <<2 * MatchingSize(a, b, 1, Len(a), 1, Len(b)), Len(a) + Len(b)>>

\* The cutoff 0.6 as a fraction
CutoffNum == 6
CutoffDen == 10
\* n = 3 suggestions at most
MaxSuggestions == 3

Ascii == "0123456789ABCDEFGHIJKLMNOPQRSTUVWXYZ_abcdefghijklmnopqrstuvwxyz"

\* a < b for str
RECURSIVE StrLess(_, _)
StrLess(a, b) ==
    IF Len(b) = 0 THEN FALSE
    ELSE IF Len(a) = 0 THEN TRUE
    ELSE LET ca == IndexOf(SubSeq(a, 1, 1), Ascii, 1)
             cb == IndexOf(SubSeq(b, 1, 1), Ascii, 1)
         IN  IF ca # cb THEN ca < cb
             ELSE StrLess(SubSeq(a, 2, Len(a)), SubSeq(b, 2, Len(b)))

\* (score, x) < (score, y) for the tuples heapq.nlargest orders
ScoredLess(word, x, y) ==
    \E rx \in {Ratio(x, word)}, ry \in {Ratio(y, word)} :
        \/ rx[1] * ry[2] < ry[1] * rx[2]
        \/ rx[1] * ry[2] = ry[1] * rx[2] /\ StrLess(x, y)

\* The n largest of a set of names, best first
RECURSIVE NLargest(_, _, _)
NLargest(word, S, n) ==
    IF n = 0 \/ S = {} THEN << >>
    ELSE CHOOSE largest \in
             {<<best>> \o NLargest(word, S \ {best}, n - 1) :
              best \in {CHOOSE x \in S : \A y \in S \ {x} : ScoredLess(word, y, x)}} : TRUE

\* The three best names whatever their similarity
GetCloseMatchesNoCutoff(word, possibilities) ==
    NLargest(word, Range(possibilities), MaxSuggestions)

\* The word itself taken for its one close match, listed or not
WordItself(word, possibilities) == <<word>>

\* difflib.get_close_matches(word, possibilities, n=3, cutoff=0.6)
GetCloseMatches(word, possibilities) ==
    NLargest(word,
             {x \in Range(possibilities) :
                 \E r \in {Ratio(x, word)} : r[1] * CutoffDen >= CutoffNum * r[2]},
             MaxSuggestions)

RelationPre == "relation \""
RelationPost == "\" does not exist"

\* re.search(r'relation "(.*?)" does not exist', msg): <<i, j>>, the group
\* being msg[i..j-1], or <<0, 0>> when nothing matches
RelationMatch(msg) ==
    LET n == Len(msg)
        starts == {i \in 1..n : i + Len(RelationPre) - 1 <= n
                     /\ SubSeq(msg, i, i + Len(RelationPre) - 1) = RelationPre}
        ends(i) == {j \in (i + Len(RelationPre))..n :
                     /\ j + Len(RelationPost) - 1 <= n
                     /\ SubSeq(msg, j, j + Len(RelationPost) - 1) = RelationPost
                     /\ ~Contains(SubSeq(msg, i + Len(RelationPre), j - 1), "\n")}
        hits == {i \in starts : ends(i) # {}}
    IN  IF hits = {} THEN <<0, 0>>
        ELSE <<Min(hits) + Len(RelationPre), Min(ends(Min(hits)))>>

\* ', '.join(names)
RECURSIVE JoinComma(_)
JoinComma(names) ==
    IF names = << >> THEN ""
    ELSE IF Len(names) = 1 THEN names[1]
    ELSE names[1] \o ", " \o JoinComma(Tail(names))

-----------------------------------------------------------------------------
(* DBSession: the diagnose-and-recover pipeline.                           *)

NoAction == "None"

\* DBSession._diagnose_error: Ok("dict", diagnosis), or what it raises
DiagnoseError(error_message, operation, tool_call, cat, faults) ==
    LET diagnosis == [recoverable |-> FALSE, diagnosis |-> "", suggestion |-> "",
                      recovery_action |-> NoAction]
    IN  IF Contains(error_message, "relation") /\ Contains(error_message, "does not exist")
        THEN CHOOSE d \in
                 {IF m = <<0, 0>> THEN Ok("dict", diagnosis)
                  ELSE IF ~available_tables.ok THEN available_tables
                  ELSE LET table_name == SubSeq(error_message, m[1], m[2] - 1)
                       IN  CHOOSE found \in
                               {Ok("dict",
                                   [recoverable |-> TRUE,
                                    diagnosis |-> "Table '" \o table_name \o "' not found",
                                    suggestion |->
                                        IF similar_tables # << >>
                                        THEN "Similar tables: " \o JoinComma(similar_tables)
                                        ELSE "No similar tables found",
                                    recovery_action |-> "suggest_tables",
                                    similar_tables |-> similar_tables]) :
                                similar_tables \in
                                    {GetCloseMatches(table_name, available_tables.value)}} : TRUE :
                  m \in {RelationMatch(error_message)},
                  available_tables \in {GetTables(cat, faults)}} : TRUE
        ELSE IF Contains(error_message, "column") /\ Contains(error_message, "does not exist")
        THEN IF Truthy(tool_call, "table_name")
             THEN CHOOSE d \in
                      {IF ~schema.ok THEN schema
                       ELSE Ok("dict",
                              [recoverable |-> TRUE,
                               diagnosis |-> "Invalid column in table '"
                                             \o tool_call.table_name \o "'",
                               suggestion |-> "Available columns: " \o JoinComma(
                                   [i \in DOMAIN schema.value |->
                                       schema.value[i].column_name]),
                               recovery_action |-> "show_schema",
                               schema |-> schema.value]) :
                       schema \in {GetTableSchema(tool_call.table_name, cat, faults)}} : TRUE
             ELSE Ok("dict", diagnosis)
        ELSE IF Contains(lower(error_message), "permission denied")
        THEN Ok("dict", [recoverable |-> FALSE,
                         diagnosis |-> "Insufficient permissions",
                         suggestion |-> "Please check database user permissions",
                         recovery_action |-> NoAction])
        ELSE Ok("dict", diagnosis)

\* The loop with a table whose sample read failed kept, without a sample
RECURSIVE SuggestTablesKeeping(_, _, _, _)
SuggestTablesKeeping(similar_tables, table_info, cat, faults) ==
    IF similar_tables = << >> THEN [table_info |-> table_info, faults |-> faults]
    ELSE CHOOSE out \in
             {IF ~schema.ok
              THEN SuggestTablesKeeping(Tail(similar_tables), table_info, cat,
                                        Leaves(schema, faults))
              ELSE SuggestTablesKeeping(Tail(similar_tables),
                       (Head(similar_tables) :>
                            [schema |-> schema.value,
                             sample_data |-> IF sample_data.ok THEN sample_data.value
                                             ELSE None]) @@ table_info,
                       cat, Leaves(sample_data, faults)) :
              schema \in {GetTableSchema(Head(similar_tables), cat, faults)},
              sample_data \in {FetchOneSample(Head(similar_tables), cat, faults)}} : TRUE

\* The loop of _attempt_recovery over similar_tables, table_info being the
\* dict built so far: [table_info, faults].  A read that fails is logged
\* and the table left out.
RECURSIVE SuggestTables(_, _, _, _)
SuggestTables(similar_tables, table_info, cat, faults) ==
    IF similar_tables = << >> THEN [table_info |-> table_info, faults |-> faults]
    ELSE CHOOSE out \in
             {IF ~schema.ok
              THEN SuggestTables(Tail(similar_tables), table_info, cat,
                                 Leaves(schema, faults))
              ELSE IF ~sample_data.ok
              THEN SuggestTables(Tail(similar_tables), table_info, cat,
                                 Leaves(sample_data, faults))
              ELSE SuggestTables(Tail(similar_tables),
                       (Head(similar_tables) :>
                            [schema |-> schema.value,
                             sample_data |-> sample_data.value]) @@ table_info,
                       cat, faults) :
              schema \in {GetTableSchema(Head(similar_tables), cat, faults)},
              sample_data \in {FetchOneSample(Head(similar_tables), cat, faults)}} : TRUE

\* DBSession._attempt_recovery: the dict it returns (it raises nothing)
AttemptRecovery(error_info, operation, tool_call, cat, faults) ==
    IF error_info.recovery_action = "suggest_tables"
    THEN [recovery_info |->
             [type |-> "table_suggestions",
              similar_tables |->
                  SuggestTables(error_info.similar_tables, << >>, cat, faults).table_info,
              original_error |-> error_info.diagnosis,
              suggestion |-> error_info.suggestion]]
    ELSE IF error_info.recovery_action = "show_schema"
    THEN [recovery_info |->
             [type |-> "schema_info",
              schema |-> error_info.schema,
              original_error |-> error_info.diagnosis,
              suggestion |-> error_info.suggestion]]
    ELSE [error |-> "Unable to recover from error", diagnosis |-> error_info.diagnosis]

\* The faults in force once _attempt_recovery has returned
RecoveryLeaves(error_info, cat, faults) ==
    IF error_info.recovery_action = "suggest_tables"
    THEN SuggestTables(error_info.similar_tables, << >>, cat, faults).faults
    ELSE faults

\* An except branch that hands back the recovery failure alone
HandleFailureRecoveryTextOnly(ex, operation, tool_call, cat, faults) ==
    CHOOSE v \in
        {IF ~error_info.ok
         THEN [value |-> [error |-> error_info.error],
               faults |-> Leaves(error_info, faults)]
         ELSE IF error_info.value.recoverable
         THEN [value |-> AttemptRecovery(error_info.value, operation, tool_call,
                                         cat, faults),
               faults |-> RecoveryLeaves(error_info.value, cat, faults)]
         ELSE [value |-> [error |-> ex.error,
                          diagnosis |-> error_info.value.diagnosis,
                          suggested_fix |-> error_info.value.suggestion],
               faults |-> faults] :
         error_info \in {DiagnoseError(ex.error, operation, tool_call, cat, faults)}} : TRUE

\* _handle_operation's except branch, ex being what the Executor raised and
\* `faults` the faults in force after it: [value, faults]
HandleFailure(ex, operation, tool_call, cat, faults) ==
    CHOOSE v \in
        {IF ~error_info.ok
         THEN [value |-> [error |-> "Original error: " \o ex.error
                             \o "\nRecovery failed: " \o error_info.error],
               faults |-> Leaves(error_info, faults)]
         ELSE IF error_info.value.recoverable
         THEN [value |-> AttemptRecovery(error_info.value, operation, tool_call,
                                         cat, faults),
               faults |-> RecoveryLeaves(error_info.value, cat, faults)]
         ELSE [value |-> [error |-> ex.error,
                          diagnosis |-> error_info.value.diagnosis,
                          suggested_fix |-> error_info.value.suggestion],
               faults |-> faults] :
         error_info \in {DiagnoseError(ex.error, operation, tool_call, cat, faults)}} : TRUE

\* DBSession._handle_operation: [type, value] of what it returns, and the
\* faults in force when it returns
HandleOperation(operation, tool_call, cat, faults) ==
    CHOOSE r \in
        {IF ex.ok THEN [type |-> ex.type, value |-> ex.value, faults |-> faults]
         ELSE [type |-> "dict"]
              @@ HandleFailure(ex, operation, tool_call, cat, Leaves(ex, faults)) :
         ex \in {ExecuteOperation(operation, tool_call, cat, faults)}} : TRUE

-----------------------------------------------------------------------------
(* The statements each step of the pipeline sends to the connection, in    *)
(* the order sent.  A statement is named as the faults name it; the        *)
(* model's own SQL text is "query:" followed by the text.                  *)

\* The three reads of inspect_table, up to the first that fails
InspectStatements(table, cat, faults) ==
    <<"schema:" \o table>>
    \o (IF ~GetTableSchema(table, cat, faults).ok THEN << >>
        ELSE <<"constraints:" \o table>>
             \o (IF ~GetTableConstraints(table, cat, faults).ok THEN << >>
                 ELSE <<"indexes:" \o table>>))

\* The reads of get_schema's comprehension over `tables`
RECURSIVE SchemaStatements(_, _, _)
SchemaStatements(tables, cat, faults) ==
    IF tables = << >> THEN << >>
    ELSE InspectStatements(Head(tables), cat, faults)
         \o (IF InspectTable(Head(tables), cat, faults).ok
             THEN SchemaStatements(Tail(tables), cat, faults) ELSE << >>)

\* DBSession._execute_operation: the statements it sends
ExecuteStatements(operation, tool_call, cat, faults) ==
    CASE operation = "query" ->
            <<"query:" \o (IF Has(tool_call, "query") THEN tool_call.query ELSE "None")>>
      [] operation = "list_tables" -> <<"tables">>
      [] operation = "inspect_table" ->
            InspectStatements(IF Has(tool_call, "table_name")
                              THEN tool_call.table_name ELSE "None", cat, faults)
      [] operation = "get_schema" ->
            <<"tables">>
            \o (IF GetTables(cat, faults).ok
                THEN SchemaStatements(GetTables(cat, faults).value, cat, faults)
                ELSE << >>)
      [] OTHER -> << >>

\* DBSession._diagnose_error: the statements it sends
DiagnoseStatements(error_message, operation, tool_call, cat, faults) ==
    IF Contains(error_message, "relation") /\ Contains(error_message, "does not exist")
    THEN IF RelationMatch(error_message) # <<0, 0>> THEN <<"tables">> ELSE << >>
    ELSE IF Contains(error_message, "column") /\ Contains(error_message, "does not exist")
    THEN IF Truthy(tool_call, "table_name")
         THEN <<"schema:" \o tool_call.table_name>> ELSE << >>
    ELSE << >>

\* DBSession._attempt_recovery: the statements of its loop over similar_tables
RECURSIVE SuggestStatements(_, _, _)
SuggestStatements(similar_tables, cat, faults) ==
    IF similar_tables = << >> THEN << >>
    ELSE <<"schema:" \o Head(similar_tables)>>
         \o (IF GetTableSchema(Head(similar_tables), cat, faults).ok
             THEN <<"sample:" \o Head(similar_tables)>> ELSE << >>)
         \o SuggestStatements(Tail(similar_tables), cat,
                SuggestTables(<<Head(similar_tables)>>, << >>, cat, faults).faults)

\* DBSession._attempt_recovery: the statements it sends
RecoverStatements(error_info, operation, tool_call, cat, faults) ==
    IF error_info.recovery_action = "suggest_tables"
    THEN SuggestStatements(error_info.similar_tables, cat, faults)
    ELSE << >>

\* The statements of _handle_operation's except branch, `faults` being the
\* faults in force after the Executor's failure
FailureStatements(ex, operation, tool_call, cat, faults) ==
    LET error_info == DiagnoseError(ex.error, operation, tool_call, cat, faults)
    IN  DiagnoseStatements(ex.error, operation, tool_call, cat, faults)
        \o (IF error_info.ok /\ error_info.value.recoverable
            THEN RecoverStatements(error_info.value, operation, tool_call, cat, faults)
            ELSE << >>)

\* An except branch that ran the operation again after a recovery
HandleStatementsRetrying(operation, tool_call, cat, faults) ==
    LET ex == ExecuteOperation(operation, tool_call, cat, faults)
        own == ExecuteStatements(operation, tool_call, cat, faults)
    IN  own \o (IF ex.ok THEN << >>
                ELSE FailureStatements(ex, operation, tool_call, cat,
                                       Leaves(ex, faults)) \o own)

\* DBSession._handle_operation: the statements it sends
HandleStatements(operation, tool_call, cat, faults) ==
    LET ex == ExecuteOperation(operation, tool_call, cat, faults)
    IN  ExecuteStatements(operation, tool_call, cat, faults)
        \o (IF ex.ok THEN << >>
            ELSE FailureStatements(ex, operation, tool_call, cat, Leaves(ex, faults)))

-----------------------------------------------------------------------------
(* The tool-call dispatchers (process_tool_calls of each session).         *)

\* The test of the block's type alone
MatchesAnyTool(s, tool_call) == tool_call.type = "tool_use"

\* tool_call.type == "tool_use" and tool_call.name == <the session's tool>
Matches(s, tool_call) ==
    tool_call.type = "tool_use" /\ tool_call.name = ToolName(s)

\* The entry with the invocation's tool name where its id belongs
WrapResultNameAsId(tool_call, res) ==
    LET is_error == Truthy(res, "error")
        text == IF is_error THEN res.error
                ELSE IF Has(res, "content") THEN res.content ELSE ""
    IN  [tool_call_id |-> tool_call.id,
         output |-> [type |-> "tool_result",
                     content |-> <<TextBlock(text)>>,
                     tool_use_id |-> tool_call.name,
                     is_error |-> is_error]]

\* The entry with the error flag left clear whatever the handler returned
WrapResultFlagClear(tool_call, res) ==
    LET text == IF Truthy(res, "error") THEN res.error
                ELSE IF Has(res, "content") THEN res.content ELSE ""
    IN  [tool_call_id |-> tool_call.id,
         output |-> [type |-> "tool_result",
                     content |-> <<TextBlock(text)>>,
                     tool_use_id |-> tool_call.id,
                     is_error |-> FALSE]]

\* The entry editor, bash and mermaid append for one handled invocation
WrapResult(tool_call, res) ==
    LET is_error == Truthy(res, "error")
        text == IF is_error THEN res.error
                ELSE IF Has(res, "content") THEN res.content ELSE ""
    IN  [tool_call_id |-> tool_call.id,
         output |-> [type |-> "tool_result",
                     content |-> <<TextBlock(text)>>,
                     tool_use_id |-> tool_call.id,
                     is_error |-> is_error]]

\* EditorSession.process_tool_calls, `results` being the list built so far:
\* [results, files]
RECURSIVE EditorProcessToolCalls(_, _, _)
EditorProcessToolCalls(tool_calls, results, fs) ==
    IF tool_calls = << >> THEN [results |-> results, files |-> fs]
    ELSE IF ~Matches("editor", Head(tool_calls))
    THEN EditorProcessToolCalls(Tail(tool_calls), results, fs)
    ELSE CHOOSE out \in
             {EditorProcessToolCalls(Tail(tool_calls),
                  Append(results, WrapResult(Head(tool_calls), h.res)), h.files) :
              h \in {HandleTextEditorTool(fs, Head(tool_calls).input)}} : TRUE

\* BashSession.process_tool_calls
RECURSIVE BashProcessToolCalls(_)
BashProcessToolCalls(tool_calls) ==
    IF tool_calls = << >> THEN << >>
    ELSE LET tool_call == Head(tool_calls)
         IN  IF Matches("bash", tool_call)
             THEN <<WrapResult(tool_call, HandleBashCommand(tool_call.input))>>
                  \o BashProcessToolCalls(Tail(tool_calls))
             ELSE BashProcessToolCalls(Tail(tool_calls))

\* MermaidSession.process_tool_calls
RECURSIVE MermaidProcessToolCalls(_)
MermaidProcessToolCalls(tool_calls) ==
    IF tool_calls = << >> THEN << >>
    ELSE LET tool_call == Head(tool_calls)
         IN  IF Matches("mermaid", tool_call)
             THEN <<WrapResult(tool_call, HandleMermaidTool(tool_call.input))>>
                  \o MermaidProcessToolCalls(Tail(tool_calls))
             ELSE MermaidProcessToolCalls(Tail(tool_calls))

NotEnabledText ==
    "Database functionality is not enabled. Please configure database settings in .env file."

\* The entries DBSession.process_tool_calls appends that carry is_recoverable
DbFlaggedResult(tool_call, block, is_recoverable) ==
    [tool_call_id |-> tool_call.id,
     output |-> [type |-> "tool_result",
                 content |-> <<block>>,
                 tool_use_id |-> tool_call.id,
                 is_error |-> TRUE,
                 is_recoverable |-> is_recoverable]]

\* The entry for a result without recovery information
DbPlainResult(tool_call, block) ==
    [tool_call_id |-> tool_call.id,
     output |-> [type |-> "tool_result",
                 content |-> <<block>>,
                 tool_use_id |-> tool_call.id,
                 is_error |-> FALSE]]

\* json.dumps without an encoder class takes str and int cells only
PlainDumpable(row) ==
    row = None \/ \A k \in DOMAIN row : row[k].t \in {"str", "int"}

\* json.dumps(..., cls=DatabaseJSONEncoder) also takes Decimal, datetime, date, time
EncoderDumpable(row) ==
    \A k \in DOMAIN row : row[k].t \in {"str", "int", "decimal", "datetime"}

\* result["recovery_info"] is what Recover built, or, from the result of
\* get_schema, what inspect_table returned for a table of that name
RecoveryDumpable(recovery_info) ==
    (Has(recovery_info, "type") /\ recovery_info.type = "table_suggestions") =>
        \A t \in DOMAIN recovery_info.similar_tables :
            PlainDumpable(recovery_info.similar_tables[t].sample_data)

\* The text of the last text block of an assistant turn, as the JSON value
RECURSIVE AnalysisText(_)
AnalysisText(msgs) ==
    IF msgs = << >> THEN None
    ELSE LET msg == msgs[Len(msgs)]
             texts == IF msg.role = "assistant"
                      THEN {i \in DOMAIN msg.content : msg.content[i].type = "text"}
                      ELSE {}
         IN  IF texts # {} THEN [str |-> msg.content[Max(texts)].text]
             ELSE AnalysisText(SubSeq(msgs, 1, Len(msgs) - 1))

RecoveryMessage(recovery_info) ==
    [role |-> "system",
     content |-> <<JsonTextBlock("Error occurred but recovery information is available:\n",
                                 recovery_info)>>]

\* The value of the "data" key: a list of rows, a list of names or an object
JsonData(r) ==
    CASE r.type = "rows" -> [rows |-> r.value]
      [] r.type = "list" -> [names |-> r.value]
      [] OTHER           -> [object |-> r.value]

\* One pass of the for loop of DBSession.process_tool_calls over a matching
\* invocation, r being what _handle_operation returned: [entry, messages]
DbWrap(tool_call, r, msgs) ==
    IF r.type = "dict" /\ Has(r.value, "recovery_info")
    THEN IF ~RecoveryDumpable(r.value.recovery_info)
         THEN [entry |-> DbFlaggedResult(tool_call,
                            TextBlock("Object of type datetime is not JSON serializable"),
                            FALSE),
               messages |-> msgs]
         ELSE [entry |-> DbFlaggedResult(tool_call,
                            JsonTextBlock("", [error |-> TRUE,
                                               recovery_info |-> r.value.recovery_info]),
                            TRUE),
               messages |-> Append(msgs, RecoveryMessage(r.value.recovery_info))]
    ELSE IF r.type = "rows" /\ \E i \in DOMAIN r.value : ~EncoderDumpable(r.value[i])
    THEN [entry |-> DbFlaggedResult(tool_call,
                       TextBlock("Object of type memoryview is not JSON serializable"),
                       FALSE),
          messages |-> msgs]
    ELSE [entry |-> DbPlainResult(tool_call,
                       JsonTextBlock("", [analysis |-> AnalysisText(msgs),
                                          data |-> JsonData(r)])),
          messages |-> msgs]

\* tool_call.input.get("operation"), None being no operation name
OperationOf(tool_call) ==
    IF Has(tool_call.input, "operation") THEN tool_call.input.operation ELSE "None"

DbHandleCall(tool_call, msgs, cat, faults) ==
    CHOOSE h \in {DbWrap(tool_call, r, msgs) @@ [faults |-> r.faults] :
        r \in {HandleOperation(OperationOf(tool_call), tool_call.input, cat, faults)}} : TRUE

\* A dispatcher that handles the invocations whatever the enabled flag
RECURSIVE DbProcessToolCallsUnguarded(_, _, _, _, _)
DbProcessToolCallsUnguarded(tool_calls, results, msgs, dbv, faults) ==
    IF tool_calls = << >>
    THEN [results |-> results, messages |-> msgs, faults |-> faults]
    ELSE IF ~Matches("database", Head(tool_calls))
    THEN DbProcessToolCallsUnguarded(Tail(tool_calls), results, msgs, dbv, faults)
    ELSE CHOOSE out \in
             {DbProcessToolCallsUnguarded(Tail(tool_calls), Append(results, h.entry),
                                          h.messages, dbv, h.faults) :
              h \in {DbHandleCall(Head(tool_calls), msgs, dbv.cat, faults)}} : TRUE

\* DBSession.process_tool_calls: the statements it sends
RECURSIVE DbDispatchStatements(_, _, _)
DbDispatchStatements(tool_calls, dbv, faults) ==
    IF tool_calls = << >> \/ ~dbv.enabled THEN << >>
    ELSE IF ~Matches("database", Head(tool_calls))
    THEN DbDispatchStatements(Tail(tool_calls), dbv, faults)
    ELSE HandleStatements(OperationOf(Head(tool_calls)), Head(tool_calls).input,
                          dbv.cat, faults)
         \o DbDispatchStatements(Tail(tool_calls), dbv,
                HandleOperation(OperationOf(Head(tool_calls)), Head(tool_calls).input,
                                dbv.cat, faults).faults)

\* DBSession.process_tool_calls, `results` being the list built so far:
\* [results, messages, faults]
RECURSIVE DbProcessToolCalls(_, _, _, _, _)
DbProcessToolCalls(tool_calls, results, msgs, dbv, faults) ==
    IF tool_calls = << >>
    THEN [results |-> results, messages |-> msgs, faults |-> faults]
    ELSE IF ~Matches("database", Head(tool_calls))
    THEN DbProcessToolCalls(Tail(tool_calls), results, msgs, dbv, faults)
    ELSE CHOOSE out \in
             {DbProcessToolCalls(Tail(tool_calls), Append(results, h.entry),
                                 h.messages, dbv, h.faults) :
              h \in {IF ~dbv.enabled
                     THEN [entry |-> DbFlaggedResult(Head(tool_calls),
                                        TextBlock(NotEnabledText), FALSE),
                           messages |-> msgs, faults |-> faults]
                     ELSE DbHandleCall(Head(tool_calls), msgs, dbv.cat, faults)}} : TRUE

\* self.process_tool_calls(response.content) of session s:
\* [results, messages, files, faults]
ProcessToolCalls(s, tool_calls, msgs, fs, dbv, faults) ==
    CASE s = "editor" ->
            EditorProcessToolCalls(tool_calls, << >>, fs)
            @@ [messages |-> msgs, faults |-> faults]
      [] s = "bash" ->
            [results |-> BashProcessToolCalls(tool_calls), messages |-> msgs,
             files |-> fs, faults |-> faults]
      [] s = "mermaid" ->
            [results |-> MermaidProcessToolCalls(tool_calls), messages |-> msgs,
             files |-> fs, faults |-> faults]
      [] s = "database" ->
            DbProcessToolCalls(tool_calls, << >>, msgs, dbv, faults) @@ [files |-> fs]

-----------------------------------------------------------------------------
(* The model capability: the replies a tool session's model call returns.  *)

\* Arguments the model sends to each tool
ToolInputs(s) ==
    CASE s = "editor" ->
            { [command |-> "str_replace", path |-> "/repo/a.txt",
               old_str |-> "foo", new_str |-> "baz"],
              [command |-> "view", path |-> "/repo/b.txt"] }
      [] s = "bash" ->
            { [command |-> "ls"], [command |-> "false"] }
      [] s = "mermaid" ->
            { [diagram |-> "graph TD; A-->B"], [diagram |-> "grph"] }
      [] s = "database" ->
            { [operation |-> "list_tables"],
              [operation |-> "query", query |-> "SELECT * FROM usres"],
              [operation |-> "query", query |-> "SELEC 1"],
              [operation |-> "relation \"usres\" does not exist"] }

\* Replies that carry two invocations of the session's tool
ToolInputPairs(s) ==
    CASE s = "editor" ->
            { << [command |-> "view", path |-> "/repo/a.txt"],
                 [command |-> "insert", path |-> "/repo/a.txt", insert_line |-> 100,
                  new_str |-> "x"] >> }
      [] s = "bash" ->
            { << [command |-> "ls"], [command |-> "cat nofile"] >> }
      [] s = "mermaid" ->
            { << [diagram |-> "graph TD; A-->B"], EmptyDict >> }
      [] s = "database" ->
            { << [operation |-> "list_tables"], [operation |-> "drop_table"] >> }

\* A tool of another session, named in a reply to session s
ForeignTool(s) == IF s = "bash" THEN "str_replace_editor" ELSE "bash"

\* The arguments of the session's own invocation in a reply that also
\* invokes a tool of another session
OwnInput(s) ==
    CASE s = "editor"   -> [command |-> "view", path |-> "/repo/a.txt"]
      [] s = "bash"     -> [command |-> "ls"]
      [] s = "mermaid"  -> [diagram |-> "graph TD; A-->B"]
      [] s = "database" -> [operation |-> "list_tables"]

FinalTexts == {"Task complete.", "All work is FINISHED", "Still pending"}

Reply(stop_reason, content) == [stop_reason |-> stop_reason, content |-> content]

Replies(s) ==
    {Reply("end_turn", <<TextBlock(t)>>) : t \in FinalTexts}
    \cup {Reply("end_turn", <<TextBlock("Summary follows"), TextBlock("I am done")>>),
          Reply("end_turn", << >>),
          Reply("max_tokens", <<ToolUse("tu1", ToolName(s), EmptyDict)>>),
          Reply("tool_use", <<ToolUse("tu1", "web_search", EmptyDict)>>)}
    \cup {Reply("tool_use", <<TextBlock("Running the tool"), ToolUse("tu1", ToolName(s), in)>>) :
            in \in ToolInputs(s)}
    \cup {Reply("tool_use", <<ToolUse("tu1", ToolName(s), p[1]),
                             ToolUse("tu2", ToolName(s), p[2])>>) :
            p \in ToolInputPairs(s)}

\* The statements that may fail on the connection while a reply is dispatched
FaultSets(s) ==
    IF s = "database" THEN {{}, {"tables"}, {"sample:users"}} ELSE {{}}

-----------------------------------------------------------------------------
(* BaseSession._process_messages.                                          *)

CompletionMarkers == {"task complete", "finished", "done"}

\* The marker test without .lower()
HasMarkerCaseSensitive(text) == \E marker \in CompletionMarkers : Contains(text, marker)

\* any(marker in text.lower() for marker in [...])
HasMarker(text) == \E marker \in CompletionMarkers : Contains(lower(text), marker)

\* response.content[0].text can be read
FirstIsText(reply) == reply.content # << >> /\ reply.content[1].type = "text"

\* The first user turn: the input, then the previous result if it is truthy
SeedMessage(user_input, previous_result) ==
    [role |-> "user",
     content |-> <<TextBlock(user_input)>> \o
                 (IF previous_result # None
                  THEN <<JsonTextBlock("\nPrevious tool result: ", previous_result)>>
                  ELSE << >>)]

FreshResult == [complete |-> FALSE, content |-> None, is_error |-> FALSE]

\* The rest of a pass with the `break` taken on an error flag of any result
AfterDispatchBreakOnAny(fr, d) ==
    IF d.results # << >>
    THEN [messages |-> Append(d.messages,
              [role |-> "user", content |-> <<d.results[1].output>>]),
          final_result |-> [fr EXCEPT !.content = d.results[1].output,
                                      !.is_error = d.results[1].output.is_error],
          tool_results |-> d.results, files |-> d.files, faults |-> d.faults,
          dispatched |-> TRUE,
          exit |-> IF \E i \in DOMAIN d.results : d.results[i].output.is_error
                   THEN "break" ELSE "continue"]
    ELSE [messages |-> d.messages, final_result |-> fr,
          tool_results |-> d.results, files |-> d.files, faults |-> d.faults,
          dispatched |-> TRUE, exit |-> "continue"]

\* The rest of a pass without the `break` on an error result
AfterDispatchNoBreak(fr, d) ==
    IF d.results # << >>
    THEN [messages |-> Append(d.messages,
              [role |-> "user", content |-> <<d.results[1].output>>]),
          final_result |-> [fr EXCEPT !.content = d.results[1].output,
                                      !.is_error = d.results[1].output.is_error],
          tool_results |-> d.results, files |-> d.files, faults |-> d.faults,
          dispatched |-> TRUE, exit |-> "continue"]
    ELSE [messages |-> d.messages, final_result |-> fr,
          tool_results |-> d.results, files |-> d.files, faults |-> d.faults,
          dispatched |-> TRUE, exit |-> "continue"]

\* The rest of a pass with the user turn put in the place of the conversation
AfterDispatchReplacing(fr, d) ==
    IF d.results # << >>
    THEN [messages |-> <<[role |-> "user", content |-> <<d.results[1].output>>]>>,
          final_result |-> [fr EXCEPT !.content = d.results[1].output,
                                      !.is_error = d.results[1].output.is_error],
          tool_results |-> d.results, files |-> d.files, faults |-> d.faults,
          dispatched |-> TRUE,
          exit |-> IF d.results[1].output.is_error THEN "break" ELSE "continue"]
    ELSE [messages |-> d.messages, final_result |-> fr,
          tool_results |-> d.results, files |-> d.files, faults |-> d.faults,
          dispatched |-> TRUE, exit |-> "continue"]

\* The rest of a pass with the last result read where the first is
AfterDispatchTakingLast(fr, d) ==
    IF d.results # << >>
    THEN [messages |-> Append(d.messages,
              [role |-> "user", content |-> <<d.results[Len(d.results)].output>>]),
          final_result |-> [fr EXCEPT !.content = d.results[Len(d.results)].output,
                                      !.is_error = d.results[Len(d.results)].output.is_error],
          tool_results |-> d.results, files |-> d.files, faults |-> d.faults,
          dispatched |-> TRUE,
          exit |-> IF d.results[Len(d.results)].output.is_error THEN "break" ELSE "continue"]
    ELSE [messages |-> d.messages, final_result |-> fr,
          tool_results |-> d.results, files |-> d.files, faults |-> d.faults,
          dispatched |-> TRUE, exit |-> "continue"]

\* The rest of a pass once the dispatcher has returned d
AfterDispatch(fr, d) ==
    IF d.results # << >>
    THEN [messages |-> Append(d.messages,
              [role |-> "user", content |-> <<d.results[1].output>>]),
          final_result |-> [fr EXCEPT !.content = d.results[1].output,
                                      !.is_error = d.results[1].output.is_error],
          tool_results |-> d.results, files |-> d.files, faults |-> d.faults,
          dispatched |-> TRUE,
          exit |-> IF d.results[1].output.is_error THEN "break" ELSE "continue"]
    ELSE [messages |-> d.messages, final_result |-> fr,
          tool_results |-> d.results, files |-> d.files, faults |-> d.faults,
          dispatched |-> TRUE, exit |-> "continue"]

\* What one pass of `while True` does with a reply:
\* [messages, final_result, tool_results, files, faults, dispatched, exit],
\* where exit is "continue", "break" or "raise"
Iteration(s, reply, msgs, fr, trs, fs, dbv, flt) ==
    LET msgs1 == Append(msgs, [role |-> "assistant", content |-> reply.content])
    IN  IF reply.stop_reason # "tool_use"
        THEN IF ~FirstIsText(reply)
             THEN [messages |-> msgs1, final_result |-> fr, tool_results |-> trs,
                   files |-> fs, faults |-> flt, dispatched |-> FALSE,
                   exit |-> "raise"]
             ELSE [messages |-> msgs1,
                   final_result |-> IF HasMarker(reply.content[1].text)
                                    THEN [fr EXCEPT !.complete = TRUE] ELSE fr,
                   tool_results |-> trs, files |-> fs, faults |-> flt,
                   dispatched |-> FALSE, exit |-> "break"]
        ELSE CHOOSE it \in {AfterDispatch(fr, d) :
                 d \in {ProcessToolCalls(s, reply.content, msgs1, fs, dbv, flt)}} : TRUE

\* What process_edit, process_bash_command, process_mermaid_prompt and
\* process_query hand back of _process_messages' result
SessionReturn(s, fr) == IF s = "bash" THEN None ELSE fr

-----------------------------------------------------------------------------
(* Orchestrator.                                                           *)

UserInput == "save the user list to a file"

\* What analyze_task returns when its model call or json.loads raises
FallbackAnalysis ==
    [primary_tool |-> "editor", secondary_tools |-> << >>,
     task_type |-> "unknown", suggested_approach |-> "direct execution"]

Plan(primary_tool, secondary_tools, secondary_inputs) ==
    [primary_tool |-> primary_tool, primary_input |-> "primary subtask",
     secondary_tools |-> secondary_tools, secondary_inputs |-> secondary_inputs,
     task_type |-> "t", suggested_approach |-> "a"]

\* The JSON objects the router's model call answers with
AnalysisReplies ==
    {Plan(s, << >>, << >>) : s \in Sessions}
    \cup { Plan("browser", <<"editor">>, <<"s1">>),
           Plan("editor", <<"mermaid", "bash">>, <<"s1", "s2">>),
           Plan("editor", <<"editor", "bash">>, <<"s1">>),
           Plan("editor", <<"bash", "editor">>, <<"s1", "s2">>),
           Plan("bash", <<"editor">>, <<"s1">>),
           Plan("database", <<"editor">>, <<"s1">>),
           Plan("mermaid", <<"browser", "database">>, <<"s1", "s2">>) }

\* A JSON array: a value json.loads returns that is no dict
JsonList == [py |-> "list"]

\* The replies the router's model call returns
RouterReplies ==
    {Reply("end_turn", <<JsonTextBlock("", a)>>) : a \in AnalysisReplies}
    \cup {Reply("end_turn", << >>),
          Reply("end_turn", <<TextBlock("I would start with the editor.")>>),
          Reply("end_turn", <<JsonTextBlock("Here is the analysis:\n",
                                            Plan("bash", << >>, << >>))>>),
          Reply("end_turn", <<JsonTextBlock("", JsonList)>>),
          Reply("tool_use", <<ToolUse("tu1", "bash", EmptyDict)>>)}

\* json.loads(text) takes a text that is a JSON value and nothing else
JsonLoadsLenient(block) ==
    IF Has(block, "json") THEN Ok("json", block.json)
    ELSE Raise("Expecting value: line 1 column 1 (char 0)")

\* json.loads(response.content[0].text) for a first block that has a text
JsonLoads(block) ==
    IF Has(block, "json") /\ block.prefix = "" THEN Ok("json", block.json)
    ELSE Raise("Expecting value: line 1 column 1 (char 0)")

\* analyze_task from the reply of its model call on: what it returns
AnalyzeReply(reply) ==
    IF reply.content = << >> \/ reply.content[1].type # "text"
    THEN FallbackAnalysis
    ELSE IF JsonLoads(reply.content[1]).ok
    THEN JsonLoads(reply.content[1]).value
    ELSE FallbackAnalysis

\* analysis.get(key, default)
\* A SessionLogger of its own for each tool session
OwnSessionLogger(s) == s

\* The SessionLogger each tool session was given by set_logger: the
\* Orchestrator hands its one SessionLogger to all four
SessionLoggerOf(s) == "session_logger"

\* response.usage of a reply: input_tokens and output_tokens
Usage(reply) == [input |-> 2, output |-> 1 + Len(reply.content)]

\* The counters of a new SessionLogger
NoUsage == [input |-> 0, output |-> 0]

\* SessionLogger.update_token_usage
AddUsage(total, usage) ==
    [input |-> total.input + usage.input, output |-> total.output + usage.output]

Get(d, k, default) == IF Has(d, k) THEN d[k] ELSE default

\* A pairing that runs over every secondary tool and hands None to the ones
\* without an input (itertools.zip_longest)
SecondaryPairsPadded(a) ==
    LET tools == Get(a, "secondary_tools", << >>)
        inputs == Get(a, "secondary_inputs", << >>)
    IN  [i \in 1..Len(tools) |->
            <<tools[i], IF i <= Len(inputs) THEN inputs[i] ELSE "None">>]

\* zip(secondary_tools, secondary_inputs)
SecondaryPairs(a) ==
    LET tools == Get(a, "secondary_tools", << >>)
        inputs == Get(a, "secondary_inputs", << >>)
        n == IF Len(tools) < Len(inputs) THEN Len(tools) ELSE Len(inputs)
    IN  [i \in 1..n |-> <<tools[i], inputs[i]>>]

\* `if result and not result.get("is_error")`
ChainGuard(r) == r # None /\ ~r.is_error

\* A session's _process_messages is entered: the conversation is seeded
StartLoop(s, kind, user_input, previous_result) ==
    /\ cur' = s
    /\ active' = active \cup {s}
    /\ messages' = [messages EXCEPT ![s] = <<SeedMessage(user_input, previous_result)>>]
    /\ final_result' = FreshResult
    /\ response' = None
    /\ tool_results' = << >>
    /\ iter' = 0
    /\ dispatches' = 0
    /\ steps' = Append(steps, [tool |-> s, kind |-> kind, pos |-> idx,
                               previous_result |-> previous_result,
                               returned |-> FALSE, final |-> None,
                               result |-> None])
    /\ pc' = "loop"

\* Orchestrator.analyze_task, its model call answering or raising
AnalyzeTask ==
    /\ pc = "start"
    /\ \/ \E reply \in RouterReplies :
             /\ router_response' = reply
             /\ analysis' = AnalyzeReply(reply)
             /\ usage_reported' = AddUsage(usage_reported, Usage(reply))
       \/ /\ analysis' = FallbackAnalysis
          /\ UNCHANGED <<router_response, usage_reported>>
    /\ pc' = "execute"
    /\ UNCHANGED <<args, token_usage, result, idx, cur, active, messages, final_result, response,
                   tool_results, iter, dispatches, db_faults, calls, steps, files, db>>

\* Orchestrator.execute_task up to the primary tool's call
ExecutePrimary ==
    /\ pc = "execute"
    /\ LET primary_tool == Get(analysis, "primary_tool", "editor")
           primary_input == Get(analysis, "primary_input", UserInput)
       IN  \* analysis.get of a list raises AttributeError
           IF analysis # JsonList /\ primary_tool \in Sessions
           THEN StartLoop(primary_tool, "primary", primary_input, None)
           ELSE /\ pc' = "raised"
                /\ UNCHANGED <<cur, active, messages, final_result, response,
                               tool_results, iter, dispatches, steps>>
    /\ UNCHANGED <<args, token_usage, usage_reported, router_response, analysis, result, idx, db_faults, calls, files, db>>

\* A return that leaves the session marked as inside _process_messages
ReturnToStillActive(s, fr) ==
    LET ret == SessionReturn(s, fr)
    IN  /\ result' = ret
        /\ cur' = "none"
        /\ active' = active
        /\ steps' = [steps EXCEPT ![Len(steps)].returned = TRUE,
                                  ![Len(steps)].final = fr,
                                  ![Len(steps)].result = ret]
        /\ idx' = idx + 1
        /\ pc' = IF idx = 0 /\ ~ChainGuard(ret) THEN "finish" ELSE "chain"

\* The running loop ends with `return final_result`: back in execute_task
ReturnTo(s, fr) ==
    LET ret == SessionReturn(s, fr)
    IN  /\ result' = ret
        /\ cur' = "none"
        /\ active' = active \ {s}
        /\ steps' = [steps EXCEPT ![Len(steps)].returned = TRUE,
                                  ![Len(steps)].final = fr,
                                  ![Len(steps)].result = ret]
        /\ idx' = idx + 1
        /\ pc' = IF idx = 0 /\ ~ChainGuard(ret) THEN "finish" ELSE "chain"

\* One pass of `while True` of the running session: the model call, the
\* assistant turn, and either the end of the loop or the dispatch
LoopIteration ==
    /\ pc = "loop"
    /\ calls < MaxCalls
    /\ \E reply \in Replies(cur), flt \in FaultSets(cur) :
          \E it \in {Iteration(cur, reply, messages[cur], final_result,
                               tool_results, files, db, flt \cup db.conn)} :
              /\ calls' = calls + 1
              /\ iter' = iter + 1
              /\ response' = reply
              /\ messages' = [messages EXCEPT ![cur] = it.messages]
              /\ final_result' = it.final_result
              /\ tool_results' = it.tool_results
              /\ files' = it.files
              /\ dispatches' = IF it.dispatched THEN dispatches + 1 ELSE dispatches
              /\ db_faults' = IF it.dispatched THEN flt \cup db.conn ELSE db_faults
              /\ db' = [db EXCEPT !.conn = ConnectionAfter(it.faults)]
              /\ CASE it.exit = "continue" ->
                        UNCHANGED <<pc, result, idx, cur, active, steps>>
                   [] it.exit = "break" -> ReturnTo(cur, it.final_result)
                   [] it.exit = "raise" ->
                        /\ pc' = "raised"
                        /\ UNCHANGED <<result, idx, cur, active, steps>>
              /\ token_usage' = [token_usage EXCEPT
                    ![SessionLoggerOf(cur)] = AddUsage(@, Usage(reply))]
              /\ usage_reported' = AddUsage(usage_reported, Usage(reply))
    /\ UNCHANGED <<args, router_response, analysis>>

\* The failure of the model call turned into a final result with the error
\* flag set
ModelCallFailsSwallowed ==
    /\ pc = "loop"
    /\ calls < MaxCalls
    /\ calls' = calls + 1
    /\ ReturnTo(cur, [final_result EXCEPT !.is_error = TRUE])
    /\ UNCHANGED <<args, token_usage, usage_reported, router_response, analysis, messages, final_result, response, tool_results,
                   iter, dispatches, db_faults, files, db>>

\* The model call of the running session raises: _process_messages,
\* execute_task and process_request re-raise
ModelCallFails ==
    /\ pc = "loop"
    /\ calls < MaxCalls
    /\ calls' = calls + 1
    /\ pc' = "raised"
    /\ UNCHANGED <<args, token_usage, usage_reported, router_response, analysis, result, idx, cur, active, messages, final_result,
                   response, tool_results, iter, dispatches, db_faults, steps,
                   files, db>>

\* A for loop whose if/elif chain ended in the else branch of the primary's
ChainStepRaisingOnUnknown ==
    /\ pc = "chain"
    /\ idx <= Len(SecondaryPairs(analysis))
    /\ LET pair == SecondaryPairs(analysis)[idx]
       IN  IF pair[1] \in Sessions
           THEN /\ StartLoop(pair[1], "secondary", pair[2], result)
                /\ UNCHANGED idx
           ELSE /\ pc' = "raised"
                /\ UNCHANGED <<idx, cur, active, messages, final_result, response,
                               tool_results, iter, dispatches, steps>>
    /\ UNCHANGED <<args, token_usage, usage_reported, router_response, analysis, result, db_faults, calls, files, db>>

\* One pass of the for loop over the secondary pairs
ChainStep ==
    /\ pc = "chain"
    /\ idx <= Len(SecondaryPairs(analysis))
    /\ LET pair == SecondaryPairs(analysis)[idx]
       IN  IF pair[1] \in Sessions
           THEN /\ StartLoop(pair[1], "secondary", pair[2], result)
                /\ UNCHANGED idx
           ELSE /\ idx' = idx + 1
                /\ UNCHANGED <<pc, cur, active, messages, final_result, response,
                               tool_results, iter, dispatches, steps>>
    /\ UNCHANGED <<args, token_usage, usage_reported, router_response, analysis, result, db_faults, calls, files, db>>

\* execute_task returns; process_request logs the cost
Finish ==
    /\ \/ pc = "finish"
       \/ pc = "chain" /\ idx > Len(SecondaryPairs(analysis))
    /\ pc' = "done"
    /\ UNCHANGED <<args, token_usage, usage_reported, router_response, analysis, result, idx, cur, active, messages, final_result,
                   response, tool_results, iter, dispatches, db_faults, calls,
                   steps, files, db>>

\* The live table lists the model follows
Catalogs == { <<"users", "user_roles", "orders">>, <<"users", "recovery_info">> }

\* The database a request runs against
LiveCatalog == <<"users", "user_roles", "orders">>

\* DBSession.__init__: the session's fields when the constructor is over or,
\* with `raised`, at the point where it raised.  `configured` is the
\* configuration's database.enabled and `connects` whether engine.connect()
\* succeeds.  BaseSession.__init__ leaves self.logger None and the
\* Orchestrator calls set_logger only once the four sessions are built, so
\* the except branch's self.logger.error raises AttributeError before
\* enabled is cleared.
DBSessionInit(configured, connects, cat) ==
    [enabled |-> configured,
     engine |-> IF configured /\ connects THEN [py |-> "PostgresEngine"] ELSE None,
     configured |-> configured,
     raised |-> configured /\ ~connects,
     cat |-> cat, conn |-> {}]

Init ==
    /\ router_response = None
    /\ analysis = None
    /\ result = None
    /\ idx = 0
    /\ cur = "none"
    /\ active = {}
    /\ messages = [s \in Sessions |-> << >>]
    /\ final_result = None
    /\ response = None
    /\ tool_results = << >>
    /\ iter = 0
    /\ dispatches = 0
    /\ db_faults = {}
    /\ calls = 0
    /\ steps = << >>
    /\ files = [p \in Paths |-> IF p = "a.txt" THEN File("foo\nbar\n") ELSE Missing]
    /\ \E configured \in BOOLEAN, connects \in BOOLEAN :
          db = DBSessionInit(configured, connects, LiveCatalog)
    \* a constructor that raised leaves main() with no Orchestrator
    /\ pc = IF db.raised THEN "raised" ELSE "start"
    /\ token_usage = [l \in {SessionLoggerOf(t) : t \in Sessions} |-> NoUsage]
    /\ usage_reported = NoUsage
    /\ args = [no_agi |-> FALSE]    \* started without --no-agi

Next ==
    \/ AnalyzeTask
    \/ ExecutePrimary
    \/ LoopIteration
    \/ ModelCallFails
    \/ ChainStep
    \/ Finish

Spec == Init /\ [][Next]_vars

\* A pass of `while True` as LoopIteration makes it, the conversation held
\* at its seeded turn and the counters calls, iter and dispatches held at
\* MaxCalls once they reach it: the loop itself reads none of them.
UnrecordedPass(replies, fault_sets) ==
    /\ pc = "loop"
    /\ \E reply \in replies, flt \in fault_sets :
          \E it \in {Iteration(cur, reply, messages[cur], final_result,
                               tool_results, files, db, flt \cup db.conn)} :
              /\ response' = reply
              /\ db_faults' = IF it.dispatched THEN flt \cup db.conn ELSE db_faults
              /\ db' = [db EXCEPT !.conn = ConnectionAfter(it.faults)]
              /\ calls' = IF calls < MaxCalls THEN calls + 1 ELSE calls
              /\ iter' = IF iter < MaxCalls THEN iter + 1 ELSE iter
              /\ dispatches' = IF it.dispatched /\ dispatches < MaxCalls
                               THEN dispatches + 1 ELSE dispatches
              /\ final_result' = it.final_result
              /\ tool_results' = it.tool_results
              /\ files' = it.files
              /\ CASE it.exit = "continue" ->
                        UNCHANGED <<pc, result, idx, cur, active, steps>>
                   [] it.exit = "break" -> ReturnTo(cur, it.final_result)
                   [] it.exit = "raise" ->
                        /\ pc' = "raised"
                        /\ UNCHANGED <<result, idx, cur, active, steps>>
    /\ UNCHANGED <<args, token_usage, usage_reported, router_response, analysis, messages>>

LoopIterationUnrecorded == UnrecordedPass(Replies(cur), FaultSets(cur))

\* One run of the conversation loop in which every model call returns a
\* reply: a request whose plan has a primary tool only, taken from the call
\* of that tool's _process_messages on.
LoopInit ==
    /\ pc = "loop"
    /\ \E s \in Sessions :
          /\ router_response = Reply("end_turn", <<JsonTextBlock("", Plan(s, << >>, << >>))>>)
          /\ analysis = Plan(s, << >>, << >>)
          /\ cur = s
          /\ active = {s}
          /\ messages = [t \in Sessions |->
                IF t = s THEN <<SeedMessage("primary subtask", None)>> ELSE << >>]
          /\ steps = << [tool |-> s, kind |-> "primary", pos |-> 0,
                         previous_result |-> None, returned |-> FALSE,
                         final |-> None, result |-> None] >>
    /\ result = None
    /\ idx = 0
    /\ final_result = FreshResult
    /\ response = None
    /\ tool_results = << >>
    /\ iter = 0
    /\ dispatches = 0
    /\ db_faults = {}
    /\ calls = 0
    /\ files = [p \in Paths |-> IF p = "a.txt" THEN File("foo\nbar\n") ELSE Missing]
    /\ \E configured \in BOOLEAN : db = DBSessionInit(configured, TRUE, LiveCatalog)
    /\ token_usage = [l \in {SessionLoggerOf(t) : t \in Sessions} |-> NoUsage]
    /\ usage_reported = NoUsage
    /\ \E given \in BOOLEAN : args = [no_agi |-> given]    \* --no-agi given or not

LoopNext == LoopIterationUnrecorded \/ Finish

-----------------------------------------------------------------------------
(* The database session alone: one run of its loop against each catalog,   *)
(* with the invocations that take each branch of the pipeline.             *)

\* Arguments the model sends to the database tool, one or more for each
\* branch of _execute_operation and of _diagnose_error
PipelineInputs ==
    { [operation |-> "list_tables"],
      [operation |-> "get_schema"],
      [operation |-> "query", query |-> "SELECT * FROM usres"],
      [operation |-> "query", query |-> "SELEC 1"],
      [operation |-> "query", query |-> "UPDATE users SET name = 'x'"],
      [operation |-> "query", query |-> "SELECT nme FROM users",
       table_name |-> "users"],
      [operation |-> "relation \"usres\" does not exist"],
      [operation |-> "relation \"order\" does not exist"],
      [operation |-> "column \"nme\" does not exist", table_name |-> "users"],
      [operation |-> "column \"nme\" does not exist"],
      [operation |-> "column \"relation_id\" does not exist", table_name |-> "users"],
      [operation |-> "Permission Denied"] }

PipelineReplies ==
    {Reply("tool_use", <<ToolUse("tu1", "database", in)>>) : in \in PipelineInputs}
    \cup {Reply("end_turn", <<TextBlock("Task complete.")>>), Reply("end_turn", << >>)}

\* The statements that may lose the connection while a reply is dispatched
PipelineFaultSets ==
    {{}, {"tables"}, {"schema:users"}, {"sample:users"}, {"sample:user_roles"}}

DbIteration == UnrecordedPass(PipelineReplies, PipelineFaultSets)

\* A request whose plan has the database tool only, taken from the call of
\* process_query on, the session enabled and its connection fresh
DbInit ==
    /\ pc = "loop"
    /\ router_response = Reply("end_turn", <<JsonTextBlock("", Plan("database", << >>, << >>))>>)
    /\ analysis = Plan("database", << >>, << >>)
    /\ cur = "database"
    /\ active = {"database"}
    /\ messages = [t \in Sessions |->
          IF t = "database" THEN <<SeedMessage("primary subtask", None)>> ELSE << >>]
    /\ steps = << [tool |-> "database", kind |-> "primary", pos |-> 0,
                   previous_result |-> None, returned |-> FALSE,
                   final |-> None, result |-> None] >>
    /\ result = None
    /\ idx = 0
    /\ final_result = FreshResult
    /\ response = None
    /\ tool_results = << >>
    /\ iter = 0
    /\ dispatches = 0
    /\ db_faults = {}
    /\ calls = 0
    /\ files = [p \in Paths |-> IF p = "a.txt" THEN File("foo\nbar\n") ELSE Missing]
    /\ \E cat \in Catalogs : db = DBSessionInit(TRUE, TRUE, cat)
    /\ token_usage = [l \in {SessionLoggerOf(t) : t \in Sessions} |-> NoUsage]
    /\ usage_reported = NoUsage
    /\ args = [no_agi |-> FALSE]    \* started without --no-agi

DbNext == DbIteration \/ Finish

DbSpec == DbInit /\ [][DbNext]_vars

-----------------------------------------------------------------------------
(* The dispatchers alone: one run of each session's loop with replies that *)
(* name another session's tool beside its own, and with the arguments that *)
(* make each local operation fail.                                         *)

\* Arguments with which the local operation of each tool fails
FailingInputs(s) ==
    CASE s = "editor" ->
            { [command |-> "view", path |-> "/repo/b.txt"],
              [command |-> "str_replace", path |-> "/repo/b.txt",
               old_str |-> "foo", new_str |-> "baz"],
              [command |-> "delete", path |-> "/repo/a.txt"],
              [command |-> "view"],
              EmptyDict,
              [command |-> "insert", path |-> "/repo/a.txt", insert_line |-> 100,
               new_str |-> "x"],
              [command |-> "insert", path |-> "/repo/a.txt", insert_line |-> 3,
               new_str |-> "x"],
              [command |-> "insert", path |-> "/repo/b.txt", insert_line |-> 2,
               new_str |-> "x"],
              [command |-> "str_replace", path |-> "/repo/a.txt",
               old_str |-> "qux", new_str |-> "baz"],
              [command |-> "create", path |-> "/repo/a.txt"] }
      [] s = "bash" ->
            { [command |-> "false"], [command |-> "cat nofile"],
              [command |-> "ls \\0"], EmptyDict }
      [] s = "mermaid" ->
            { [diagram |-> "grph"], EmptyDict,
              [diagram |-> "graph TD; A-->B", output_file |-> "/proc/x/d.png"] }
      [] s = "database" -> {}

\* Edits that change a file of the editor directory
EditInputs(s) ==
    IF s = "editor"
    THEN { [command |-> "create", path |-> "/repo/b.txt", file_text |-> "one\n"],
           [command |-> "str_replace", path |-> "/repo/a.txt",
            old_str |-> "foo", new_str |-> "qux"] }
    ELSE {}

DispatchReplies(s) ==
    {Reply("tool_use", <<ToolUse("tu1", ToolName(s), in)>>) : in \in EditInputs(s)}
    \cup
    {Reply("tool_use", <<ToolUse("tu1", ForeignTool(s), [command |-> "ls"]),
                         ToolUse("tu2", ToolName(s), OwnInput(s))>>),
     Reply("tool_use", <<ToolUse("tu1", ToolName(s), OwnInput(s)),
                         ToolUse("tu2", ForeignTool(s), [command |-> "ls"])>>),
     Reply("tool_use", <<ToolUse("tu1", ForeignTool(s), [command |-> "ls"])>>),
     Reply("end_turn", <<TextBlock("Task complete.")>>)}
    \cup {Reply("tool_use", <<ToolUse("tu1", ToolName(s), in)>>) : in \in FailingInputs(s)}
    \cup {Reply("tool_use", <<ToolUse("tu1", ToolName(s), OwnInput(s)),
                             ToolUse("tu2", ToolName(s), in)>>) : in \in FailingInputs(s)}

DispatchIteration == UnrecordedPass(DispatchReplies(cur), FaultSets(cur))

DispatchNext == DispatchIteration \/ Finish

DispatchSpec == LoopInit /\ [][DispatchNext]_vars

\* What a pass of the loop always renews: where the request stands and how
\* many results the last dispatch gave
passView == <<pc, Len(tool_results)>>

\* The interpreter keeps running the request: the loop is not left waiting
LoopSpec == LoopInit /\ [][LoopNext]_vars /\ WF_passView(LoopNext)

-----------------------------------------------------------------------------
(* Properties of the conversation loop.                                    *)

\* The running loop has completed a pass and goes on to the next model call
LoopContinues == pc = "loop" /\ iter >= 1

\* The call of _process_messages logged last
LastStep == steps[Len(steps)]

\* The last call of _process_messages has returned and nothing has started since
LoopReturned == steps # << >> /\ LastStep.returned /\ cur = "none"

\* Some entry of the last dispatch has its error flag set
AnyErrorResult == \E i \in DOMAIN tool_results : tool_results[i].output.is_error

\* The first entry of the last dispatch has its error flag set
FirstErrorResult == tool_results # << >> /\ tool_results[1].output.is_error

\* C1 as stated: once any ToolResult of a pass has its error flag set, the
\* loop makes no further pass (no step increments iter from such a state).
C1_AnyErrorEndsLoop ==
    [][(LoopContinues /\ AnyErrorResult) => ~(pc' = "loop" /\ iter' = iter + 1)]_vars

\* C1 amended: a pass whose FIRST ToolResult has its error flag set is the
\* last pass of the loop: the loop is never left running after it.
C1_FirstErrorEndsLoop == (iter >= 1 /\ FirstErrorResult) => pc # "loop"

\* C1 witness: a loop returned right after a dispatch whose first result was
\* an error, and execute_task has that error as the step's result.
C1_Witness ==
    /\ LoopReturned /\ iter >= 1 /\ FirstErrorResult
    /\ response.stop_reason = "tool_use"
    /\ LastStep.final.is_error

-----------------------------------------------------------------------------
(* Properties of the primary/secondary chain.                              *)

-----------------------------------------------------------------------------
(* Replies that do not request tool use.                                   *)

\* The reply of the last pass did not request tool use
FinalReply == response # None /\ response.stop_reason # "tool_use"

\* Some text block of the reply contains a completion marker, in any letter case
ReplyTextHasMarker(reply) ==
    \E i \in DOMAIN reply.content :
        /\ reply.content[i].type = "text"
        /\ \E marker \in {"task complete", "finished", "done"} :
              Contains(lower(reply.content[i].text), marker)

-----------------------------------------------------------------------------
(* Termination of the conversation loop.                                   *)

\* C4 as stated: every run of the conversation loop eventually ends.
C4_LoopTerminates == (pc = "loop") ~> (pc # "loop")

\* C4 amended: a loop that has returned ended on a reply that does not
\* request tool use or on a dispatch whose first ToolResult has its error
\* flag set, and a loop is left running only after a reply that requested
\* tool use and whose dispatch gave no ToolResult or a first ToolResult
\* without the error flag; the number of passes has no bound.
C4_EndsOnlyOnFinalReplyOrFirstError ==
    /\ (LoopReturned /\ response # None) =>
          \/ response.stop_reason # "tool_use" /\ ~FirstErrorResult
          \/ response.stop_reason = "tool_use" /\ FirstErrorResult
    /\ (pc = "loop" /\ response # None) =>
          response.stop_reason = "tool_use" /\ ~FirstErrorResult

\* C4 witness: a loop whose last dispatch yielded no ToolResult went on to
\* another model call and ended on that reply, which requested no tool use.
C4_Witness ==
    /\ LoopReturned /\ FinalReply
    /\ iter >= 2 /\ dispatches >= 1 /\ tool_results = << >>
    /\ response.content # << >> /\ response.content[1].type = "text"

-----------------------------------------------------------------------------
(* Properties of the dispatchers.                                          *)

\* The reply of the last pass was handed to the dispatcher, whose results
\* are tool_results
Dispatched == response # None /\ response.stop_reason = "tool_use"

\* The invocations of the last reply that name the running session's tool
OwnInvocations ==
    SelectSeq(response.content,
              LAMBDA b : b.type = "tool_use" /\ b.name = ToolName(LastStep.tool))

\* C5: after every dispatch, of every tool kind and on every path, the
\* results answer the invocations of the session's tool one for one and in
\* order, and each result's tool_use_id is the id of its invocation.
C5_ResultCarriesInvocationId ==
    Dispatched =>
        /\ Len(tool_results) = Len(OwnInvocations)
        /\ \A i \in DOMAIN tool_results :
              /\ tool_results[i].output.tool_use_id = OwnInvocations[i].id
              /\ tool_results[i].tool_call_id = OwnInvocations[i].id

\* C5 witness: a reply with two invocations was dispatched, the first
\* succeeding and the second failing, and the two results carry the two ids.
C5_Witness ==
    /\ Dispatched /\ Len(tool_results) = 2
    /\ tool_results[1].output.tool_use_id = "tu1"
    /\ tool_results[2].output.tool_use_id = "tu2"
    /\ ~tool_results[1].output.is_error /\ tool_results[2].output.is_error

\* C6 as stated: in every conversation the turns alternate user, assistant,
\* user, ... from the seeded user turn on.
C6_TurnsAlternate ==
    \A s \in Sessions : \A i \in DOMAIN messages[s] :
        messages[s][i].role = IF i % 2 = 1 THEN "user" ELSE "assistant"

\* The last dispatch was the database dispatcher's, on an enabled session
DbDispatched == Dispatched /\ LastStep.tool = "database" /\ db.enabled

\* The faults in force when the i-th database invocation of the last reply
\* was handled
RECURSIVE FaultsAt(_)
FaultsAt(i) ==
    IF i = 1 THEN db_faults
    ELSE HandleOperation(OperationOf(OwnInvocations[i - 1]), OwnInvocations[i - 1].input,
                         db.cat, FaultsAt(i - 1)).faults

\* What the Executor did for the i-th database invocation of the last reply
ExecutorOutcome(i) ==
    ExecuteOperation(OperationOf(OwnInvocations[i]), OwnInvocations[i].input,
                     db.cat, FaultsAt(i))

\* C7 as stated: whenever the Executor failed for an invocation its
\* ToolResult has the error flag set (a result with the flag clear answers
\* an operation that succeeded).
C7_ExecutorFailureSetsErrorFlag ==
    DbDispatched =>
        \A i \in DOMAIN tool_results :
            ~ExecutorOutcome(i).ok => tool_results[i].output.is_error

\* The i-th invocation took the path: Executor failed, Diagnose said
\* recoverable, Recover returned a recovery payload
RecoveryPath(i) ==
    LET call == OwnInvocations[i]
        ex == ExecutorOutcome(i)
    IN  /\ ~ex.ok
        /\ LET d == DiagnoseError(ex.error, OperationOf(call), call.input,
                                  db.cat, Leaves(ex, FaultsAt(i)))
           IN  /\ d.ok
               /\ d.value.recoverable
               /\ Has(AttemptRecovery(d.value, OperationOf(call), call.input,
                                      db.cat, Leaves(ex, FaultsAt(i))), "recovery_info")

\* The recoverable flag of a result (absent counts as false)
IsRecoverable(output) == Has(output, "is_recoverable") /\ output.is_recoverable

\* C8 as stated: a ToolResult has recoverable = true exactly when its
\* invocation took the recovery path, and then its error flag is set too.
C8_RecoverableFlagMarksRecoveryPath ==
    DbDispatched =>
        \A i \in DOMAIN tool_results :
            /\ RecoveryPath(i) =>
                  tool_results[i].output.is_error /\ IsRecoverable(tool_results[i].output)
            /\ IsRecoverable(tool_results[i].output) =>
                  tool_results[i].output.is_error /\ RecoveryPath(i)

-----------------------------------------------------------------------------
(* Properties of the chain, continued.                                     *)

\* The secondary pairs whose tool has a session
RunnablePairs ==
    {i \in DOMAIN SecondaryPairs(analysis) : SecondaryPairs(analysis)[i][1] \in Sessions}

\* C9 as stated: when the request is done and no loop of it ended with its
\* error flag set, every paired secondary tool was run, in list order, and
\* each secondary loop received the final result of the step before it.
C9_ChainPassesResultsOn ==
    (/\ pc = "done" /\ steps # << >>
     /\ \A k \in DOMAIN steps : steps[k].returned /\ ~steps[k].final.is_error)
        => /\ Len(steps) = 1 + Cardinality(RunnablePairs)
           /\ \A k \in 2..Len(steps) :
                 /\ steps[k].tool = SecondaryPairs(analysis)[steps[k].pos][1]
                 /\ steps[k].pos > steps[k - 1].pos
                 /\ steps[k].previous_result = steps[k - 1].final

\* C10: the router has answered before the primary loop starts, a step
\* starts only when every earlier step has returned, the primary step comes
\* first and the secondary steps follow in list order, and at no time is
\* more than one conversation loop active.
C10_StepsAreSequential ==
    /\ Cardinality(active) <= 1
    /\ active = IF pc = "loop" \/ (pc = "raised" /\ cur # "none") THEN {cur} ELSE {}
    /\ steps # << >> => analysis # None
    /\ \A k \in DOMAIN steps :
          /\ k < Len(steps) => steps[k].returned
          /\ steps[k].kind = IF k = 1 THEN "primary" ELSE "secondary"
          /\ k > 1 => steps[k].pos > steps[k - 1].pos

\* C10 witness: the second secondary loop is running, the primary loop and
\* the first secondary loop having returned.
C10_Witness ==
    /\ Len(steps) = 3 /\ pc = "loop" /\ iter >= 1
    /\ steps[1].returned /\ steps[2].returned /\ ~steps[3].returned
    /\ active = {steps[3].tool}

-----------------------------------------------------------------------------
(* Failures of the model call and of the router.                           *)

\* A step in which the running loop's model call raised: the call was made
\* and no pass of the loop was completed
ModelCallFailed == pc = "loop" /\ calls' = calls + 1 /\ iter' = iter

\* C11: a model call that fails inside a conversation loop raises through
\* _process_messages, execute_task and process_request: no final result is
\* handed to execute_task, the step is not logged as returned, and from then
\* on no model call, no dispatch and no further step of the chain happens.
C11_ModelCallFailureAbortsRequest ==
    [][/\ ModelCallFailed =>
             /\ pc' = "raised"
             /\ UNCHANGED <<result, steps, idx, dispatches, messages,
                            final_result, tool_results, files>>
       /\ pc = "raised" =>
             /\ pc' = "raised"
             /\ UNCHANGED <<calls, dispatches, steps, result, files, messages>>]_vars

\* C11 witness: the primary loop of a plan with a secondary pair had
\* dispatched a tool when its next model call raised; the primary step has
\* not returned and no secondary step was started.
C11_Witness ==
    /\ pc = "raised" /\ cur # "none"
    /\ response # None /\ response.stop_reason = "tool_use" /\ dispatches >= 1
    /\ Len(SecondaryPairs(analysis)) >= 1
    /\ Len(steps) = 1 /\ ~LastStep.returned
    /\ result = None

\* The router's model call raised (no reply), or its reply has no first text
\* block that is a JSON value and nothing else
RouterReplyUnusable(reply) ==
    \/ reply = None
    \/ reply.content = << >>
    \/ ~Has(reply.content[1], "json")
    \/ reply.content[1].prefix # ""

-----------------------------------------------------------------------------
(* Properties of the conversation.                                         *)

\* Conversation a is the beginning of conversation b
IsPrefix(a, b) == Len(a) <= Len(b) /\ SubSeq(b, 1, Len(a)) = a

\* C13 as stated: every step leaves the turns of every session's
\* conversation where they are and adds turns at the end only, for as long
\* as the session object lives.
C13_ConversationOnlyGrows ==
    [][\A s \in Sessions : IsPrefix(messages[s], messages'[s])]_vars

\* C13 amended: while a call of _process_messages runs, the conversation of
\* every session keeps its turns and grows at the end only; a conversation
\* is replaced only when a call of _process_messages of its session starts,
\* and then by the one seeded user turn.
C13_ConversationGrowsWithinRun ==
    [][\A s \in Sessions :
          \/ IsPrefix(messages[s], messages'[s])
          \/ /\ Len(steps') = Len(steps) + 1
             /\ s = cur'
             /\ Len(messages'[s]) = 1
             /\ messages'[s][1].role = "user"]_vars

\* C13 witness: the editor session runs its second step of the chain; its
\* conversation was seeded anew and has grown by a reply and a tool result.
C13_Witness ==
    /\ Len(steps) = 2 /\ steps[1].tool = steps[2].tool
    /\ pc = "loop" /\ Len(messages[cur]) >= 3

\* C14 as stated: every turn of every session's conversation has role user
\* or assistant.
C14_RolesAreUserOrAssistant ==
    \A s \in Sessions : \A i \in DOMAIN messages[s] :
        messages[s][i].role \in {"user", "assistant"}

\* The last turn of the conversation of the step that ran last
LastTurn == messages[LastStep.tool][Len(messages[LastStep.tool])]

\* C15 as stated: after the dispatch of a reply with n >= 1 invocations of
\* the session's tool there are n ToolResults, and the user turn appended
\* after the assistant turn holds a ToolResult for each of the n invocations.
C15_UserTurnAnswersEveryInvocation ==
    (Dispatched /\ Len(OwnInvocations) >= 1) =>
        /\ Len(tool_results) = Len(OwnInvocations)
        /\ LastTurn.role = "user"
        /\ \A i \in DOMAIN OwnInvocations :
              \E j \in DOMAIN LastTurn.content :
                  /\ Has(LastTurn.content[j], "tool_use_id")
                  /\ LastTurn.content[j].tool_use_id = OwnInvocations[i].id

-----------------------------------------------------------------------------
(* Properties of the diagnose-and-recover pipeline.                        *)

\* The statements the pipeline sent for the i-th database invocation
StatementsOf(i) ==
    HandleStatements(OperationOf(OwnInvocations[i]), OwnInvocations[i].input,
                     db.cat, FaultsAt(i))

\* The statements of the requested operation itself
OwnStatements(i) ==
    ExecuteStatements(OperationOf(OwnInvocations[i]), OwnInvocations[i].input,
                      db.cat, FaultsAt(i))

\* A read of the table list, or of the columns or the first row of a live table
IsCatalogOrSampleRead(st) ==
    \/ st = "tables"
    \/ \E t \in Range(db.cat) : st = "schema:" \o t \/ st = "sample:" \o t

\* C16: every dispatcher handles each invocation of its tool once, and for
\* a database invocation the statements sent are those of the requested
\* operation, once, followed only by reads of the table list and of the
\* columns and first row of live tables, none of them a statement of the
\* operation.
C16_OperationRunsAtMostOnce ==
    /\ Dispatched => Len(tool_results) = Len(OwnInvocations)
    /\ DbDispatched =>
          \A i \in DOMAIN OwnInvocations :
              \E log \in {StatementsOf(i)}, own \in {OwnStatements(i)} :
                  /\ Len(log) >= Len(own)
                  /\ SubSeq(log, 1, Len(own)) = own
                  /\ \A k \in (Len(own) + 1)..Len(log) :
                        IsCatalogOrSampleRead(log[k]) /\ log[k] \notin Range(own)

\* C16 witness: the query of usres failed, the pipeline went on to read the
\* table list, and the query was sent once.
C16_Witness ==
    /\ DbDispatched /\ Len(OwnInvocations) = 1 /\ ~ExecutorOutcome(1).ok
    /\ StatementsOf(1) = <<"query:SELECT * FROM usres", "tables">>

\* What _diagnose_error returned or raised for the failure of the i-th
\* database invocation, and what _attempt_recovery returned for a diagnosis
DiagnosisOf(i) ==
    DiagnoseError(ExecutorOutcome(i).error, OperationOf(OwnInvocations[i]),
                  OwnInvocations[i].input, db.cat,
                  Leaves(ExecutorOutcome(i), FaultsAt(i)))

RecoveryOf(i, error_info) ==
    AttemptRecovery(error_info, OperationOf(OwnInvocations[i]),
                    OwnInvocations[i].input, db.cat,
                    Leaves(ExecutorOutcome(i), FaultsAt(i)))

\* The error text has the form relation "T" does not exist, and its T
IsUndefinedTable(text) == RelationMatch(text) # <<0, 0>>

UndefinedTable(text) ==
    SubSeq(text, RelationMatch(text)[1], RelationMatch(text)[2] - 1)

\* C17 as stated: when a query failed with relation "T" does not exist,
\* Diagnose returns recoverable = true, action suggest_tables and the live
\* table names similar to T, and Recover returns a table_suggestions payload
\* with the original diagnosis text and, for each similar table it could
\* read, the table's columns and its first row.
C17_UndefinedTableIsRecovered ==
    DbDispatched =>
        \A i \in DOMAIN OwnInvocations :
            (/\ OperationOf(OwnInvocations[i]) = "query"
             /\ ~ExecutorOutcome(i).ok
             /\ IsUndefinedTable(ExecutorOutcome(i).error)) =>
                \E d \in {DiagnosisOf(i)} :
                    /\ d.ok
                    /\ d.value.recoverable
                    /\ d.value.recovery_action = "suggest_tables"
                    /\ d.value.similar_tables =
                          GetCloseMatches(UndefinedTable(ExecutorOutcome(i).error), db.cat)
                    /\ \E p \in {RecoveryOf(i, d.value)} :
                          /\ Has(p, "recovery_info")
                          /\ p.recovery_info.type = "table_suggestions"
                          /\ p.recovery_info.original_error = d.value.diagnosis
                          /\ \A t \in DOMAIN p.recovery_info.similar_tables :
                                /\ t \in Range(d.value.similar_tables)
                                /\ p.recovery_info.similar_tables[t].schema = Columns(t)
                                /\ p.recovery_info.similar_tables[t].sample_data = FirstRow(t)

\* The error text matches column ... does not exist
IsMissingColumn(text) == Contains(text, "column") /\ Contains(text, "does not exist")

\* C18 as stated: when the error text is not of the form relation "T" does
\* not exist, matches column ... does not exist, and the arguments carry a
\* table name, Diagnose returns recoverable = true, action show_schema and
\* the columns of that table.
C18_MissingColumnShowsSchema ==
    DbDispatched =>
        \A i \in DOMAIN OwnInvocations :
            (/\ ~ExecutorOutcome(i).ok
             /\ ~IsUndefinedTable(ExecutorOutcome(i).error)
             /\ IsMissingColumn(ExecutorOutcome(i).error)
             /\ Truthy(OwnInvocations[i].input, "table_name")) =>
                \E d \in {DiagnosisOf(i)} :
                    /\ d.ok
                    /\ d.value.recoverable
                    /\ d.value.recovery_action = "show_schema"
                    /\ d.value.schema = Columns(OwnInvocations[i].input.table_name)

\* The error text reads permission denied, in small letters, with initial
\* capitals or in capitals
IsPermissionDenied(text) ==
    \E words \in {"permission denied", "Permission denied", "Permission Denied",
                  "PERMISSION DENIED"} : Contains(text, words)

\* The two cases of a recoverable diagnosis: an undefined table whose name
\* was captured, and a missing column with a table name in the arguments
RecoverableCase(i) ==
    \/ IsUndefinedTable(ExecutorOutcome(i).error)
    \/ /\ IsMissingColumn(ExecutorOutcome(i).error)
       /\ Truthy(OwnInvocations[i].input, "table_name")

\* C19: Diagnose returns recoverable = true only in the two recoverable
\* cases; outside them, a permission-denied text in any letter case gets
\* recoverable = false with the diagnosis of insufficient permissions, and
\* every other text gets recoverable = false, no recovery action and an
\* empty diagnosis.
C19_OnlyTwoCasesAreRecoverable ==
    DbDispatched =>
        \A i \in DOMAIN OwnInvocations :
            ~ExecutorOutcome(i).ok =>
                \E d \in {DiagnosisOf(i)} :
                    /\ (d.ok /\ d.value.recoverable) => RecoverableCase(i)
                    /\ (~RecoverableCase(i) /\ IsPermissionDenied(ExecutorOutcome(i).error)) =>
                          /\ d.ok
                          /\ ~d.value.recoverable
                          /\ d.value.diagnosis = "Insufficient permissions"
                    /\ (~RecoverableCase(i) /\ ~IsPermissionDenied(ExecutorOutcome(i).error)) =>
                          /\ d.ok
                          /\ ~d.value.recoverable
                          /\ d.value.recovery_action = NoAction
                          /\ d.value.diagnosis = ""

\* C19 witness: the Executor failed with a text that reads Permission
\* Denied in capitals, and the diagnosis is that of insufficient
\* permissions.
C19_Witness ==
    /\ DbDispatched /\ Len(OwnInvocations) = 1 /\ ~ExecutorOutcome(1).ok
    /\ Contains(ExecutorOutcome(1).error, "Permission Denied")
    /\ DiagnosisOf(1).ok
    /\ ~DiagnosisOf(1).value.recoverable
    /\ DiagnosisOf(1).value.diagnosis = "Insufficient permissions"

\* The faults in force when _attempt_recovery comes to the k-th similar table
FaultsAtTable(i, similar_tables, k) ==
    SuggestTables(SubSeq(similar_tables, 1, k - 1), << >>, db.cat,
                  Leaves(ExecutorOutcome(i), FaultsAt(i))).faults

\* Both reads of the k-th similar table succeeded
TableWasRead(i, similar_tables, k) ==
    /\ GetTableSchema(similar_tables[k], db.cat, FaultsAtTable(i, similar_tables, k)).ok
    /\ FetchOneSample(similar_tables[k], db.cat, FaultsAtTable(i, similar_tables, k)).ok

\* C20: when Recover runs with action suggest_tables it returns a
\* table_suggestions payload whatever read fails: the read of every similar
\* table is sent, a table is in the payload exactly when both its reads
\* succeeded, and the tables of the payload are among the similar tables.
C20_TableFailureDoesNotAbortRecovery ==
    DbDispatched =>
        \A i \in DOMAIN OwnInvocations :
            ~ExecutorOutcome(i).ok =>
                \E d \in {DiagnosisOf(i)} :
                    (d.ok /\ d.value.recoverable
                          /\ d.value.recovery_action = "suggest_tables") =>
                        \E p \in {RecoveryOf(i, d.value)} :
                            /\ Has(p, "recovery_info")
                            /\ p.recovery_info.type = "table_suggestions"
                            /\ DOMAIN p.recovery_info.similar_tables
                                  \subseteq Range(d.value.similar_tables)
                            /\ \A k \in DOMAIN d.value.similar_tables :
                                  /\ ("schema:" \o d.value.similar_tables[k])
                                        \in Range(StatementsOf(i))
                                  /\ d.value.similar_tables[k]
                                        \in DOMAIN p.recovery_info.similar_tables
                                     <=> TableWasRead(i, d.value.similar_tables, k)

\* C20 witness: Recover ran for the similar tables users and user_roles,
\* the sample read of user_roles failed, and the payload has users alone.
C20_Witness ==
    /\ DbDispatched /\ Len(OwnInvocations) = 1 /\ RecoveryPath(1)
    /\ DiagnosisOf(1).value.recovery_action = "suggest_tables"
    /\ DiagnosisOf(1).value.similar_tables = <<"users", "user_roles">>
    /\ "sample:user_roles" \in db_faults
    /\ DOMAIN RecoveryOf(1, DiagnosisOf(1).value).recovery_info.similar_tables = {"users"}

\* What _handle_operation returned for the i-th database invocation
HandledOf(i) ==
    HandleOperation(OperationOf(OwnInvocations[i]), OwnInvocations[i].input,
                    db.cat, FaultsAt(i))

\* C21: _handle_operation returns a value for every invocation, and when
\* Diagnose failed after the Executor failed the value is a dict whose
\* error text holds the Executor's message and the message of the second
\* failure.
C21_HandleOperationNeverRaises ==
    DbDispatched =>
        \A i \in DOMAIN OwnInvocations :
            \E r \in {HandledOf(i)} :
                /\ Has(r, "type") /\ Has(r, "value")
                /\ (~ExecutorOutcome(i).ok /\ ~DiagnosisOf(i).ok) =>
                      /\ r.type = "dict"
                      /\ Has(r.value, "error")
                      /\ Contains(r.value.error, ExecutorOutcome(i).error)
                      /\ Contains(r.value.error, DiagnosisOf(i).error)
                      /\ ~Has(r.value, "recovery_info")

\* C21 witness: the query of usres failed, the read of the table list in
\* Diagnose failed too, and the dict returned names both failures.
C21_Witness ==
    /\ DbDispatched /\ Len(OwnInvocations) = 1
    /\ ~ExecutorOutcome(1).ok /\ ~DiagnosisOf(1).ok
    /\ Contains(HandledOf(1).value.error, "relation \"usres\" does not exist")
    /\ Contains(HandledOf(1).value.error, "Recovery failed: Failed to fetch results: ")

\* The operation names _execute_operation knows
KnownOperations == {"query", "list_tables", "inspect_table", "get_schema"}

\* C23 as stated: for an operation name outside the known ones the Executor
\* fails without sending a statement, and neither Diagnose nor Recover
\* sends one, whatever the name's text.
C23_UnknownOperationMakesNoEngineCall ==
    DbDispatched =>
        \A i \in DOMAIN OwnInvocations :
            OperationOf(OwnInvocations[i]) \notin KnownOperations =>
                /\ ~ExecutorOutcome(i).ok
                /\ OwnStatements(i) = << >>
                /\ StatementsOf(i) = << >>

-----------------------------------------------------------------------------
(* Properties of the dispatchers, continued.                               *)

\* The last dispatch was the database dispatcher's, on a session not enabled
DbDispatchedDisabled == Dispatched /\ LastStep.tool = "database" /\ ~db.enabled

\* C22: on a database session that is not enabled every database
\* invocation gets a result with the error flag set, the recoverable flag
\* clear and the not-enabled message, and no statement is sent to the
\* engine: the connection stays as it was.
C22_DisabledSessionShortCircuits ==
    DbDispatchedDisabled =>
        /\ Len(tool_results) = Len(OwnInvocations)
        /\ \A i \in DOMAIN tool_results :
              /\ tool_results[i].output.is_error
              /\ Has(tool_results[i].output, "is_recoverable")
              /\ ~tool_results[i].output.is_recoverable
              /\ tool_results[i].output.content = <<TextBlock(NotEnabledText)>>
        /\ DbDispatchStatements(response.content, db, db_faults) = << >>
        /\ db.conn = {}

\* C22 witness: a reply with two database invocations was dispatched on a
\* session that is not enabled, and both results carry the message.
C22_Witness ==
    /\ DbDispatchedDisabled /\ Len(tool_results) = 2
    /\ \A i \in 1..2 :
          /\ tool_results[i].output.content = <<TextBlock(NotEnabledText)>>
          /\ tool_results[i].output.is_error

\* C24: the session keeps its one connection for every operation, diagnosis
\* and recovery step: whether it is enabled does not change, a statement
\* that failed on the connection leaves the session's connection failed or
\* closed, and it stays so for every later dispatch (nothing connects
\* again).
C24_ConnectionOpenedOnce ==
    /\ [](DbDispatched =>
            \A i \in DOMAIN OwnInvocations :
                Has(ExecutorOutcome(i), "leaves") => db.conn # {})
    /\ [][/\ db'.enabled = db.enabled
          /\ db.conn \subseteq db'.conn
          /\ (Dispatched' /\ dispatches' > dispatches /\ cur = "database" /\ db.enabled) =>
                db.conn \subseteq db_faults']_vars

\* C24 witness: a dispatch of the database session began on the connection
\* that an earlier statement of the session had left in a failed transaction.
C24_Witness ==
    /\ DbDispatched /\ dispatches >= 2
    /\ InFailedTransaction \in db_faults

\* Properties of the token counters.

\* C25: after any sequence of model round trips the running input and output
\* token totals equal the sums of the input and output counts reported by
\* every round trip made so far.
C25_TokenTotalsMatchReportedUsage ==
    \A s \in Sessions : token_usage[SessionLoggerOf(s)] = usage_reported

\* A model round trip of the running session's Conversation Loop returns
LoopRoundTrip == pc = "loop" /\ usage_reported' # usage_reported

\* C26 as stated: the counters are per tool session: a round trip made by
\* one tool session's loop leaves the counters of every other tool session
\* unchanged.
C26_CountersPerToolSession ==
    [][LoopRoundTrip =>
          \A s \in Sessions \ {cur} :
              token_usage'[SessionLoggerOf(s)] = token_usage[SessionLoggerOf(s)]]_vars

\* C26: the tool sessions of one Orchestrator count into one running total:
\* a round trip made by any tool session's loop adds its reported counts to
\* the counters every tool session (editor, bash, mermaid, database) reads
\* through its logger, and no other step changes any of them.
C26_CountersSharedByToolSessions ==
    [][\A s \in Sessions :
          token_usage'[SessionLoggerOf(s)] =
              IF LoopRoundTrip
              THEN AddUsage(token_usage[SessionLoggerOf(s)], Usage(response'))
              ELSE token_usage[SessionLoggerOf(s)]]_vars

\* C26 witness: a secondary tool's loop has made a round trip after the
\* primary tool's loop made one, and the counters hold the counts of both.
C26_Witness ==
    /\ Len(steps) >= 2 /\ steps[1].tool # LastStep.tool
    /\ cur = LastStep.tool /\ iter >= 1
    /\ \A s \in Sessions : token_usage[SessionLoggerOf(s)].input >= 2 * Usage(response).input

\* Properties of get_schema.

\* C27: whatever the catalog holds, the value get_schema returns has exactly
\* the table names list_tables returns at that time as its keys, the tables
\* of the live catalog, and maps each to what inspect_table returns for it.
C27_GetSchemaCoversListedTables ==
    DbDispatched =>
        \A i \in DOMAIN OwnInvocations :
            (OperationOf(OwnInvocations[i]) = "get_schema" /\ ExecutorOutcome(i).ok) =>
                \E r \in {HandledOf(i)} :
                    /\ r.type = "dict"
                    /\ DOMAIN r.value = Range(db.cat)
                    /\ DOMAIN r.value =
                          Range(ExecuteOperation("list_tables", [operation |-> "list_tables"],
                                                 db.cat, FaultsAt(i)).value)
                    /\ \A t \in DOMAIN r.value :
                          r.value[t] =
                              ExecuteOperation("inspect_table",
                                  [operation |-> "inspect_table", table_name |-> t],
                                  db.cat, FaultsAt(i)).value

\* C27 witness: get_schema succeeded on the catalog with the tables users
\* and recovery_info, and its result has these two keys.
C27_Witness ==
    /\ DbDispatched /\ Len(OwnInvocations) = 1
    /\ OperationOf(OwnInvocations[1]) = "get_schema"
    /\ ExecutorOutcome(1).ok
    /\ DOMAIN HandledOf(1).value = {"users", "recovery_info"}
    /\ HandledOf(1).value["recovery_info"].schema = Columns("recovery_info")

\* Properties of the SQL text the recovery builds.

SamplePrefix == "sample:"

\* The statement is a sample-row query, the one statement whose text is
\* built with a table name put in as an identifier
IsSampleQuery(st) ==
    Len(st) >= Len(SamplePrefix) /\ SubSeq(st, 1, Len(SamplePrefix)) = SamplePrefix

\* The table name put into a sample-row query
SampledTable(st) == SubSeq(st, Len(SamplePrefix) + 1, Len(st))

\* C28: every table name put into SQL text as an identifier, in the
\* sample-row queries of Recover, is one of the tables of the live catalog,
\* whose list was read earlier in the handling of the same failure; no
\* sample-row query is sent for a name that is not a live table.
C28_InterpolatedNamesComeFromCatalog ==
    DbDispatched =>
        \A i \in DOMAIN OwnInvocations :
            \E log \in {StatementsOf(i)}, own \in {OwnStatements(i)} :
                \A k \in DOMAIN log :
                    IsSampleQuery(log[k]) =>
                        /\ SampledTable(log[k]) \in Range(db.cat)
                        /\ \E j \in (Len(own) + 1)..(k - 1) : log[j] = "tables"
                        /\ ~ExecutorOutcome(i).ok

\* C28 witness: the failure text named usres, which is no table; Diagnose
\* read the table list and Recover sent sample-row queries for the live
\* tables users and user_roles.
C28_Witness ==
    /\ DbDispatched /\ Len(OwnInvocations) = 1
    /\ ~ExecutorOutcome(1).ok
    /\ Contains(ExecutorOutcome(1).error, "relation \"usres\" does not exist")
    /\ {st \in Range(StatementsOf(1)) : IsSampleQuery(st)}
          = {"sample:users", "sample:user_roles"}

\* Properties of the dispatchers' filter.

\* C29: for every tool kind, what a dispatch does is what it would do had
\* the reply carried the invocations of the session's own tool only: an
\* invocation that names another tool gets no ToolResult, runs no
\* operation (the files and the connection are as the own invocations leave
\* them) and raises nothing, and the results of the own invocations are the
\* same, in the same order.
C29_ForeignInvocationsIgnored ==
    [][(pc = "loop" /\ Dispatched') =>
          \E own \in {OwnInvocations'} :
              \E only \in {ProcessToolCalls(cur, own,
                               Append(messages[cur],
                                      [role |-> "assistant", content |-> response'.content]),
                               files, db, db_faults')} :
                  /\ tool_results' = only.results
                  /\ files' = only.files
                  /\ db'.conn = ConnectionAfter(only.faults)
                  /\ Len(tool_results') = Len(own)
                  /\ \A i \in DOMAIN own : tool_results'[i].tool_call_id = own[i].id
                  /\ pc' # "raised"]_vars

\* C29 witness: a reply named another session's tool first and the
\* session's own tool second; the one result answers the second.
C29_Witness ==
    /\ Dispatched /\ Len(response.content) = 2
    /\ response.content[1].type = "tool_use"
    /\ response.content[1].name = ForeignTool(LastStep.tool)
    /\ response.content[2].name = ToolName(LastStep.tool)
    /\ Len(tool_results) = 1
    /\ tool_results[1].tool_call_id = response.content[2].id
    /\ ~tool_results[1].output.is_error

\* Properties of the local operations' failures.

LocalSessions == {"editor", "bash", "mermaid"}

\* The editor's directory when the i-th of the invocations `own` is handled
RECURSIVE FilesBefore(_, _, _)
FilesBefore(fs, own, i) ==
    IF i = 1 THEN fs
    ELSE HandleTextEditorTool(FilesBefore(fs, own, i - 1), own[i - 1].input).files

\* The dict the handler of session s returns for the i-th of `own`
LocalResult(s, fs, own, i) ==
    CASE s = "editor"  -> HandleTextEditorTool(FilesBefore(fs, own, i), own[i].input).res
      [] s = "bash"    -> HandleBashCommand(own[i].input)
      [] s = "mermaid" -> HandleMermaidTool(own[i].input)

\* The local operation failed: the handler returned an error dict
OperationFailed(res) == Has(res, "error")

\* A pass of the loop of an editor, bash or mermaid session that dispatches
LocalDispatch == pc = "loop" /\ cur \in LocalSessions /\ Dispatched'

\* C30 as stated: a failing local operation of the editor, bash or mermaid
\* dispatcher never raises out of process_tool_calls; it yields a ToolResult
\* with the error flag set, and the loop then halts.
C30_LocalFailureHaltsLoop ==
    [][LocalDispatch =>
          \E own \in {OwnInvocations'} :
              /\ pc' # "raised"
              /\ Len(tool_results') = Len(own)
              /\ \A i \in DOMAIN own :
                    OperationFailed(LocalResult(cur, files, own, i)) =>
                        /\ tool_results'[i].output.is_error
                        /\ pc' # "loop"]_vars

\* C30: a failing local operation of the editor, bash or mermaid dispatcher
\* never raises out of process_tool_calls and yields a ToolResult with the
\* error flag set and the handler's error text; the loop halts on it when it
\* is the first result of the dispatch, and returns a final result with the
\* error flag set.
C30_FirstLocalFailureHaltsLoop ==
    [][LocalDispatch =>
          \E own \in {OwnInvocations'} :
              /\ pc' # "raised"
              /\ Len(tool_results') = Len(own)
              /\ \A i \in DOMAIN own :
                    \E res \in {LocalResult(cur, files, own, i)} :
                        OperationFailed(res) =>
                            /\ tool_results'[i].output.is_error
                            /\ tool_results'[i].output.content = <<TextBlock(res.error)>>
                            /\ i = 1 => /\ pc' # "loop"
                                        /\ LastStep'.returned
                                        /\ LastStep'.final.is_error]_vars

\* C30 witness: the command `false` left with a non-zero status and nothing
\* on stderr; its result has the error flag set and the bash loop has
\* returned.
C30_Witness ==
    /\ Dispatched /\ LastStep.tool = "bash" /\ LoopReturned
    /\ Len(tool_results) = 1
    /\ response.content[1].input = [command |-> "false"]
    /\ tool_results[1].output.is_error
    /\ tool_results[1].output.content = <<TextBlock("Command execution failed.")>>
    /\ LastStep.final.is_error

\* Properties of the editor's operations.

\* A pass of the editor session's loop that dispatches one invocation
EditorDispatch ==
    /\ pc = "loop" /\ cur = "editor" /\ Dispatched'
    /\ Len(OwnInvocations') = 1

\* The arguments of the one invocation a pass of the editor dispatches
EditorCall == OwnInvocations'[1].input

\* The file the invocation names, as it is when the invocation is handled
EditedFile == files[GetEditorPath(EditorCall.path)]

\* The invocation is the given command on a file that exists
EditorCommandOnFile(command) ==
    /\ EditorDispatch
    /\ Has(EditorCall, "command") /\ EditorCall.command = command
    /\ Has(EditorCall, "path") /\ GetEditorPath(EditorCall.path) \in Paths
    /\ EditedFile.exists

\* C31: for every file, an insert whose line number is greater than the
\* file's number of lines gets the result "insert_line beyond file length"
\* with the error flag set, and no file of the directory changes.
C31_InsertBeyondEndLeavesFile ==
    [][(/\ EditorCommandOnFile("insert")
        /\ Has(EditorCall, "insert_line")
        /\ EditorCall.insert_line > Len(readlines(EditedFile.content))) =>
          /\ Len(tool_results') = 1
          /\ tool_results'[1].output.is_error
          /\ tool_results'[1].output.content =
                <<TextBlock("insert_line beyond file length")>>
          /\ files' = files]_vars

\* C31 witness: b.txt was created with one line, an insert at line 2 into
\* it was refused, and the file still has its one line.
C31_Witness ==
    /\ Dispatched /\ LastStep.tool = "editor" /\ Len(tool_results) = 1
    /\ response.content[1].input =
          [command |-> "insert", path |-> "/repo/b.txt", insert_line |-> 2,
           new_str |-> "x"]
    /\ tool_results[1].output.content = <<TextBlock("insert_line beyond file length")>>
    /\ files["b.txt"] = File("one\n")

\* C32: for every file, a str_replace whose old_str does not occur in the
\* file's content gets the result "old_str not found in file" with the
\* error flag set, and no file of the directory changes.
C32_StrReplaceMissLeavesFile ==
    [][(/\ EditorCommandOnFile("str_replace")
        /\ Has(EditorCall, "old_str")
        /\ ~Contains(EditedFile.content, EditorCall.old_str)) =>
          /\ Len(tool_results') = 1
          /\ tool_results'[1].output.is_error
          /\ tool_results'[1].output.content = <<TextBlock("old_str not found in file")>>
          /\ files' = files]_vars

\* C32 witness: after foo was replaced in a.txt, a second str_replace of
\* foo found nothing and the file kept the content of the first one.
C32_Witness ==
    /\ Dispatched /\ LastStep.tool = "editor" /\ Len(tool_results) = 1
    /\ response.content[1].input =
          [command |-> "str_replace", path |-> "/repo/a.txt",
           old_str |-> "foo", new_str |-> "qux"]
    /\ tool_results[1].output.content = <<TextBlock("old_str not found in file")>>
    /\ files["a.txt"].exists /\ Contains(files["a.txt"].content, "qux")

\* Properties of the command-line options.

\* The last dispatch was the bash dispatcher's and started a subprocess for
\* one of its invocations
SubprocessStarted ==
    /\ Dispatched /\ LastStep.tool = "bash"
    /\ \E i \in DOMAIN OwnInvocations : BashRuns(OwnInvocations[i].input)

\* C33 as stated: in a run started with --no-agi no bash command the model
\* requests is executed in a subprocess.
C33_NoAgiRunsNoCommand == args.no_agi => ~SubprocessStarted

\* Properties of the fuzzy matching.

\* Diagnose answered the failure of the one invocation of the last reply
\* with a list of similar tables
SuggestionCase ==
    /\ DbDispatched /\ Len(OwnInvocations) = 1
    /\ ~ExecutorOutcome(1).ok
    /\ DiagnosisOf(1).ok
    /\ DiagnosisOf(1).value.recovery_action = "suggest_tables"

\* The offending name and the list of that case
OffendingName == UndefinedTable(ExecutorOutcome(1).error)
Suggestions == DiagnosisOf(1).value.similar_tables

\* The list Diagnose gave on a fresh connection for each table list and each
\* operation name that reads as an undefined table
SuggestionsFor ==
    [x \in Catalogs \X {"relation \"usres\" does not exist",
                        "relation \"order\" does not exist"} |->
        DiagnoseError(ExecuteOperation(x[2], [operation |-> x[2]], x[1], {}).error,
                      x[2], [operation |-> x[2]], x[1], {}).value.similar_tables]

StoppedOnToolError ==
    Dispatched /\ tool_results # << >> /\ tool_results[1].output.is_error

\* C35: when a run of the loop has returned, its final result has the error
\* flag set exactly when the loop stopped on a tool error result, and then
\* the completion flag is clear; and the content of the final result, None
\* when a loop starts, is at every pass that got results from the
\* dispatcher the first of them and is left alone by every other step.
C35_FinalResultReflectsLastDispatch ==
    /\ [](LoopReturned =>
            /\ LastStep.final = final_result
            /\ LastStep.final.is_error <=> StoppedOnToolError
            /\ LastStep.final.is_error => ~LastStep.final.complete)
    /\ [][IF Len(steps') > Len(steps)
          THEN final_result'.content = None
          ELSE IF pc = "loop" /\ iter' > iter /\ Dispatched' /\ tool_results' # << >>
          THEN final_result'.content = tool_results'[1].output
          ELSE IF Has(final_result, "content")
          THEN final_result'.content = final_result.content
          ELSE final_result' = final_result]_vars

\* C35 witness: a loop returned on the error result of its second dispatch,
\* a reply with two invocations; the final result holds the first of the two
\* results, with the error flag set and the completion flag clear.
C35_Witness ==
    /\ LoopReturned /\ dispatches >= 2 /\ Len(tool_results) = 2
    /\ StoppedOnToolError
    /\ LastStep.final.content = tool_results[1].output
    /\ LastStep.final.is_error /\ ~LastStep.final.complete

\* Properties of the engine's transaction handling.

\* C36: after a statement fails on the session's connection through any
\* engine method the transaction has been rolled back before the failure is
\* raised: once a dispatch of the database session is over, and so when its
\* next statement is sent, the connection is not in a failed transaction.
C36_FailedStatementIsRolledBack ==
    DbDispatched => InFailedTransaction \notin db.conn

\* Properties of the construction of the sessions.

\* C37: when the database is enabled in the configuration and connecting
\* fails while the database session is constructed, the constructor does not
\* raise and the session is left not enabled: a configured session without
\* an engine is a built one with enabled false.
C37_ConnectFailureDisablesSession ==
    (db.configured /\ db.engine = None) => (~db.raised /\ ~db.enabled)

\* Properties of execute_task's handling of tool names.

\* analysis is a dict whose primary tool is none of the four sessions
UnknownPrimary ==
    /\ analysis # None /\ analysis # JsonList
    /\ Get(analysis, "primary_tool", "editor") \notin Sessions

\* The for loop is at a pair whose tool is none of the four sessions
AtUnknownSecondary ==
    /\ pc = "chain" /\ idx <= Len(SecondaryPairs(analysis))
    /\ SecondaryPairs(analysis)[idx][1] \notin Sessions

\* C38: a primary tool name outside {editor, bash, mermaid, database} makes
\* execute_task raise before any loop has run, and nothing runs afterwards;
\* a secondary tool name outside the set is passed over: no loop is started
\* for it, no model call is made, the chained result stays, the for loop
\* moves to the next pair, and when execute_task returns every pair with a
\* known tool has had its loop.
C38_UnknownPrimaryRaisesUnknownSecondarySkipped ==
    /\ [](UnknownPrimary /\ pc # "execute" => pc = "raised" /\ steps = << >> /\ calls = 0)
    /\ [](pc = "done" /\ steps # << >> /\ ChainGuard(steps[1].result) =>
             \A j \in DOMAIN SecondaryPairs(analysis) :
                 SecondaryPairs(analysis)[j][1] \in Sessions <=>
                     \E k \in DOMAIN steps : steps[k].kind = "secondary" /\ steps[k].pos = j)
    /\ [][/\ UnknownPrimary /\ pc = "execute" =>
                pc' = "raised" /\ UNCHANGED <<steps, calls, result, messages, files>>
          /\ AtUnknownSecondary =>
                /\ pc' = "chain" /\ idx' = idx + 1
                /\ UNCHANGED <<steps, calls, result, messages, files, cur, active>>]_vars

\* C38 witness: the plan mermaid -> [browser, database] has run to its end:
\* the unknown secondary was passed over, and the database loop that followed
\* it was handed the primary loop's result.
C38_Witness ==
    /\ pc = "done"
    /\ analysis # None /\ analysis # JsonList
    /\ Get(analysis, "secondary_tools", << >>) = <<"browser", "database">>
    /\ Len(steps) = 2
    /\ steps[2].tool = "database" /\ steps[2].pos = 2 /\ steps[2].returned
    /\ steps[1].result # None /\ steps[2].previous_result = steps[1].result

\* Properties of the pairing of secondary tools and inputs.

\* The step that has just started, if one has
StepStarted == Len(steps') > Len(steps)

\* The secondary tools and inputs of the analysis, as execute_task reads them
SecondaryTools == Get(analysis, "secondary_tools", << >>)
SecondaryInputs == Get(analysis, "secondary_inputs", << >>)

\* C39: the secondary loops started for a request are never more than the
\* shorter of the two secondary lists: the loop started for position j is
\* tool j's, seeded with input j and the chained result, and j is a position
\* of both lists; with the router's fallback analysis the one loop of the
\* request is the editor's, seeded with the raw user input.
C39_SecondaryLoopsArePairedWithInputs ==
    /\ [](steps # << >> /\ analysis # JsonList =>
            /\ Len(steps) - 1 <= Len(SecondaryTools)
            /\ Len(steps) - 1 <= Len(SecondaryInputs)
            /\ \A k \in DOMAIN steps : k > 1 =>
                  /\ steps[k].pos \in DOMAIN SecondaryTools \cap DOMAIN SecondaryInputs
                  /\ steps[k].tool = SecondaryTools[steps[k].pos])
    /\ [](analysis = FallbackAnalysis /\ pc # "execute" =>
            /\ Len(steps) = 1
            /\ steps[1].tool = "editor" /\ steps[1].kind = "primary")
    /\ [][StepStarted =>
            LET step == steps'[Len(steps')]
            IN  IF step.kind = "secondary"
                THEN messages'[step.tool]
                        = <<SeedMessage(SecondaryInputs[step.pos], result)>>
                ELSE analysis = FallbackAnalysis =>
                        messages'[step.tool] = <<SeedMessage(UserInput, None)>>]_vars

\* C39 witness: the plan editor -> [editor, bash] with the one input s1 has
\* run to its end with one secondary loop, the editor's: bash, which has no
\* input at its position, was not started.
C39_Witness ==
    /\ pc = "done"
    /\ analysis # None /\ analysis # JsonList
    /\ Len(SecondaryTools) = 2 /\ Len(SecondaryInputs) = 1
    /\ Len(steps) = 2 /\ steps[2].tool = "editor" /\ steps[2].pos = 1
    /\ steps[2].returned

====
